---- MODULE Spec2Model ----
(***************************************************************************)
(* Model of the C++ placement engine (placement_logic.cpp): boxes_overlap, *)
(* is_stable, find_spot_in_container and the phases of                     *)
(* suggest_placements_cpp; and of the worker loop of main.cpp.             *)
(*                                                                         *)
(* The engine computes on double.  The model computes on the same doubles: *)
(* every sum, difference, product, quotient and comparison below is the    *)
(* IEEE 754 binary64 operation, rounded to nearest with ties to even.      *)
(* Lengths are written in units of 1e-6 (the coordinate tolerance):        *)
(* ItemData, ContainerData and Position take such integers and hold the    *)
(* doubles that the decimal numbers of a request are read as.              *)
(***************************************************************************)
EXTENDS Integers, Sequences, FiniteSets, TLC

----------------------------------------------------------------------------
(* IEEE 754 binary64 arithmetic, round to nearest, ties to even.

   A double is <<sgn, h, m, l, e>>: sgn is 1 or -1 and the magnitude is
   (h * 2^52 + m * 2^26 + l) * 2^(26 * e - 72) with 0 <= m, l < 2^26; zero
   is <<1, 0, 0, 0, 0>>.  The exponent e is 0 for every double that is a
   multiple of 2^-72, and otherwise the greatest e < 0 that makes the double
   a multiple of 2^(26 * e - 72), so that a double has one numeral.  Every
   double x with 2^-20 <= |x| < 2^10 has e = 0: its 53 significant bits end
   at or above 2^-72; so have the sums, differences and products of such
   doubles.  A quotient below 2^-20 has e < 0.  Doubles of 2^10 and more and
   subnormal doubles are outside the numerals.
   FromMicro(n) is the double a decimal text of n * 1e-6 is read as. *)

LIMB == 67108864

Zero == <<1, 0, 0, 0, 0>>

MagOf(x) == <<x[2], x[3], x[4]>>

(* n limbs of 0, none for n <= 0 *)
Zeros(n) == IF n > 0 THEN [i \in 1..n |-> 0] ELSE <<>>

IsZeroMag(a) == \A i \in 1..Len(a) : a[i] = 0

(* The limbs after the carries (or borrows) have been passed upwards. *)
MagNorm(h, m, l) ==
    <<h + ((m + (l \div LIMB)) \div LIMB), (m + (l \div LIMB)) % LIMB, l % LIMB>>

(* The same for any number of limbs, with a carry into the last one. *)
RECURSIVE SeqNorm(_, _)
SeqNorm(s, carry) ==
    IF Len(s) = 1 THEN <<s[1] + carry>>
    ELSE Append(SeqNorm(SubSeq(s, 1, Len(s) - 1), (s[Len(s)] + carry) \div LIMB),
                (s[Len(s)] + carry) % LIMB)

(* The numeral of sign sgn and magnitude a * 2^(26 * e - 72), a # 0 rounded to
   53 significant bits: limbs of zeros at the low end are dropped until the
   exponent is 0. *)
RECURSIVE Signed(_, _, _)
Signed(sgn, a, e) ==
    IF a = <<0, 0, 0>> THEN Zero
    ELSE IF e < 0 /\ a[3] = 0 THEN Signed(sgn, MagNorm(0, a[1], a[2]), e + 1)
    ELSE <<sgn, a[1], a[2], a[3], e>>

(* The limbs of x at the lower one of the exponents of x and y, in as many
   limbs as those of y at that exponent: zeros are put below the limbs of the
   numeral with the higher exponent and above those of the other one. *)
Aligned(x, y) == Zeros(y[5] - x[5]) \o MagOf(x) \o Zeros(x[5] - y[5])

MinExp(x, y) == IF x[5] <= y[5] THEN x[5] ELSE y[5]

(* -1, 0 or 1 as a < b, a = b or a > b, for limbs a and b of one length whose
   limbs below the first one are less than 2^26 *)
RECURSIVE MagCmp(_, _)
MagCmp(a, b) ==
    IF a = <<>> THEN 0
    ELSE IF a[1] # b[1] THEN (IF a[1] < b[1] THEN -1 ELSE 1)
    ELSE MagCmp(Tail(a), Tail(b))

MagAdd(a, b) == SeqNorm([i \in 1..Len(a) |-> a[i] + b[i]], 0)

(* a - b for a >= b *)
MagSub(a, b) == SeqNorm([i \in 1..Len(a) |-> a[i] - b[i]], 0)

(* k * a for an integer k >= 0 *)
RECURSIVE MagMul(_, _)
MagMul(k, a) ==
    IF k > 32 THEN MagAdd(MagMul(32, MagMul(k \div 32, a)), MagMul(k % 32, a))
    ELSE SeqNorm([i \in 1..Len(a) |-> k * a[i]], 0)

(* The greatest power of two that is at most n, for n >= 1. *)
RECURSIVE TopBit(_)
TopBit(n) ==
    IF n >= 65536 THEN 65536 * TopBit(n \div 65536)
    ELSE IF n >= 256 THEN 256 * TopBit(n \div 256)
    ELSE IF n >= 16 THEN 16 * TopBit(n \div 16)
    ELSE IF n >= 4 THEN 4 * TopBit(n \div 4)
    ELSE IF n >= 2 THEN 2
    ELSE 1

(* Round to nearest, ties to even: rest is what is cut off, half is half of
   the unit kept, tie_up says where a tie goes. *)
RoundsUp(rest, half, tie_up) == rest > half \/ (rest = half /\ tie_up)

(* Round53 where the unit kept is P < 2^26, within the limb l. *)
RoundLow(a, P, guard, sticky) ==
    IF RoundsUp(2 * (a[3] % P) + (IF guard THEN 1 ELSE 0), P,
                sticky \/ (a[3] \div P) % 2 = 1)
    THEN MagNorm(a[1], a[2], a[3] - (a[3] % P) + P)
    ELSE <<a[1], a[2], a[3] - (a[3] % P)>>

(* Round53 where the unit kept is Pm * 2^26, within the limb m. *)
RoundMid(a, Pm, guard, sticky) ==
    IF RoundsUp((a[2] % Pm) * LIMB + a[3], Pm * (LIMB \div 2),
                guard \/ sticky \/ (a[2] \div Pm) % 2 = 1)
    THEN MagNorm(a[1], a[2] - (a[2] % Pm) + Pm, 0)
    ELSE <<a[1], a[2] - (a[2] % Pm), 0>>

(* Rounding to a multiple of P. *)
RoundTo(a, P, guard, sticky) ==
    IF P < LIMB THEN RoundLow(a, P, guard, sticky)
    ELSE RoundMid(a, P \div LIMB, guard, sticky)

(* The three limbs a, followed by half a unit when guard and by something
   below half a unit when sticky, rounded to 53 significant bits: to a
   multiple of TopBit(h) units.  The limb h is not 0 when anything follows
   the three limbs; three limbs with h = 0 are less than 53 bits. *)
Round53(a, guard, sticky) ==
    RoundTo(a, IF a[1] < 2 THEN 1 ELSE TopBit(a[1]), guard, sticky)

(* The limbs s, the last one at exponent e, rounded to 53 significant bits:
   the first three limbs from the first one that is not 0, rounded by what
   follows them. *)
RECURSIVE RoundSeq(_, _, _)
RoundSeq(sgn, s, e) ==
    IF Len(s) > 3 /\ s[1] = 0 THEN RoundSeq(sgn, Tail(s), e)
    ELSE Signed(sgn,
                Round53(SubSeq(s, 1, 3),
                        Len(s) > 3 /\ s[4] >= LIMB \div 2,
                        Len(s) > 3 /\ (s[4] % (LIMB \div 2) # 0
                                       \/ ~IsZeroMag(SubSeq(s, 5, Len(s))))),
                e + Len(s) - 3)

(* One step of the long division by 15625: the next bits of the quotient and
   the remainder, for a remainder r and a power of two. *)
MicroDigit(r, power) == (r * power) \div 15625

MicroRem(r, power) == (r * power) % 15625

(* 26 bits of the quotient, in two steps of 13, and the remainder after them. *)
MicroLimb(r) == MicroDigit(r, 8192) * 8192 + MicroDigit(MicroRem(r, 8192), 8192)

MicroRemLimb(r) == MicroRem(MicroRem(r, 8192), 8192)

(* a * 2^72 / 10^6 = a * 2^66 / 15625 rounded, for an integer a >= 0; r is the
   remainder of the division after the limb h. *)
MicroMag(a, r) ==
    Round53(<<(a \div 15625) * 16384 + MicroDigit(a % 15625, 16384),
              MicroLimb(r), MicroLimb(MicroRemLimb(r))>>,
            2 * MicroRemLimb(MicroRemLimb(r)) >= 15625,
            (2 * MicroRemLimb(MicroRemLimb(r))) % 15625 # 0)

(* The double nearest to a * 1e-6 with the sign sgn, for an integer a >= 0 *)
MicroOf(sgn, a) == Signed(sgn, MicroMag(a, MicroRem(a % 15625, 16384)), 0)

(* The double nearest to n * 1e-6. *)
FromMicro(n) == MicroOf(IF n < 0 THEN -1 ELSE 1, IF n < 0 THEN -n ELSE n)

DNeg(x) == Signed(-x[1], MagOf(x), x[5])

(* std::abs *)
Abs(x) == <<1, x[2], x[3], x[4], x[5]>>

(* x < y *)
DLt(x, y) ==
    IF x[1] # y[1] THEN x[1] < y[1]
    ELSE x[1] * MagCmp(Aligned(x, y), Aligned(y, x)) < 0

(* x <= y *)
DLe(x, y) == ~DLt(y, x)

(* sx * a + sy * b as <<sign, limbs>>, for signs sx and sy and limbs a and b
   of one length *)
SignedSum(sx, a, sy, b) ==
    IF sx = sy THEN <<sx, MagAdd(a, b)>>
    ELSE IF MagCmp(a, b) >= 0 THEN <<sx, MagSub(a, b)>>
    ELSE <<sy, MagSub(b, a)>>

(* The exact sum of x and y as <<sign, limbs>>, the limbs at the lower one of
   the two exponents. *)
ExactSum(x, y) == SignedSum(x[1], Aligned(x, y), y[1], Aligned(y, x))

Rounded(s, e) == RoundSeq(s[1], s[2], e)

(* x + y *)
DAdd(x, y) == Rounded(ExactSum(x, y), MinExp(x, y))

(* x - y *)
DSub(x, y) == DAdd(x, DNeg(y))

(* k * x for an int k >= 0, which converts to double exactly.  Below
   exponent 0 the limb h may be as much as 2^26 - 1, and the product gets a
   limb above it. *)
DMulInt(k, x) ==
    RoundSeq(x[1], MagMul(k, IF x[5] = 0 THEN MagOf(x) ELSE <<0>> \o MagOf(x)), x[5])

(* One limb of the long division by n: quotient and remainder of
   r * 2^26 + limb. *)
DivLimb(r, limb, n) == (r * LIMB + limb) \div n

RemLimb(r, limb, n) == (r * LIMB + limb) % n

(* (r * 2^78 + a) / n at exponent e for a remainder r < n, the limbs of the
   quotient above a being 0: the quotient starts at its first limb that is
   not 0, which is the first or the second one. *)
RECURSIVE DivFrom(_, _, _, _, _)
DivFrom(sgn, a, r, n, e) ==
    IF DivLimb(r, a[1], n) = 0
    THEN DivFrom(sgn, <<a[2], a[3], 0>>, RemLimb(r, a[1], n), n, e - 1)
    ELSE Signed(sgn,
                Round53(<<DivLimb(r, a[1], n),
                          DivLimb(RemLimb(r, a[1], n), a[2], n),
                          DivLimb(RemLimb(RemLimb(r, a[1], n), a[2], n), a[3], n)>>,
                        2 * RemLimb(RemLimb(RemLimb(r, a[1], n), a[2], n), a[3], n) >= n,
                        (2 * RemLimb(RemLimb(RemLimb(r, a[1], n), a[2], n), a[3], n)) % n # 0),
                e)

(* x / n for 1 <= n < 32, n a double that is an integer (25.0) *)
DDivInt(x, n) ==
    IF MagOf(x) = <<0, 0, 0>> THEN Zero ELSE DivFrom(x[1], MagOf(x), 0, n, x[5])

(* std::max(a, b): (a < b) ? b : a *)
Max(a, b) == IF DLt(a, b) THEN b ELSE a

(* std::min(a, b): (b < a) ? b : a *)
Min(a, b) == IF DLt(b, a) THEN b ELSE a

(* From <<q, r>> with a = q * 2b + r, 0 <= r < 2b, to the same for b. *)
HalveDivisor(half, b) ==
    IF MagCmp(half[2], b) >= 0
    THEN <<2 * half[1] + 1, MagSub(half[2], b)>>
    ELSE <<2 * half[1], half[2]>>

(* <<q, r>> with a = q * b + r and 0 <= r < b, for magnitudes a and b > 0 *)
RECURSIVE MagDivMod(_, _)
MagDivMod(a, b) ==
    IF MagCmp(a, b) < 0 THEN <<0, a>>
    ELSE HalveDivisor(MagDivMod(a, MagAdd(b, b)), b)

(* The limbs s divided by n < 32 from a remainder r, limb by limb. *)
RECURSIVE SeqDiv(_, _, _)
SeqDiv(s, r, n) ==
    IF s = <<>> THEN <<>>
    ELSE <<DivLimb(r, s[1], n)>> \o SeqDiv(Tail(s), RemLimb(r, s[1], n), n)

(* The limbs s * 2^-52 / n, whole units. *)
Shifted(s, n) == SeqNorm(Zeros(2) \o SeqDiv(SubSeq(s, 1, Len(s) - 2), 0, n), 0)

(* How far below q + 1 a quotient may be and still round to it, times b, in
   whole units: half the distance between q + 1 and the double before it,
   which is TopBit(q) * 2^-53 (2^-54 when q is 0). *)
Reach(q, b) ==
    IF q = 0 THEN Shifted(b, 4) ELSE Shifted(MagMul(TopBit(q), b), 2)

(* The quotient a / b rounded to a double and truncated, from a = q * b + r:
   it is q + 1 exactly when r > 0 and b - r is within the reach; a tie goes to
   q + 1, whose significand is even. *)
TruncQuot(qr, b) ==
    IF ~IsZeroMag(qr[2]) /\ MagCmp(MagSub(b, qr[2]), Reach(qr[1], b)) <= 0
    THEN qr[1] + 1
    ELSE qr[1]

(* static_cast<int>(a / b) for doubles a and b # 0 *)
TruncDiv(a, b) ==
    a[1] * b[1] * TruncQuot(MagDivMod(Aligned(a, b), Aligned(b, a)), Aligned(b, a))

----------------------------------------------------------------------------
(* Constants of the engine. *)

(* placement_logic.h: const double COORD_TOLERANCE = 1e-6 *)
COORD_TOLERANCE == FromMicro(1)

(* find_spot_in_container: the 0.02 of std::max(container.width / 25.0, 0.02) *)
MIN_INCREMENT == FromMicro(20000)

(* find_spot_in_container: the 25.0 of container.width / 25.0 *)
GRID_DIVISOR == 25

(* find_spot_in_container: the 10 of COORD_TOLERANCE * 10 *)
HEIGHT_DEDUP_FACTOR == 10

(* suggest_placements_cpp: is_high_prio = item_req.priority >= 75 *)
HIGH_PRIORITY_THRESHOLD == 75

(* The longest list of incoming items the specification enumerates. *)
MaxItems == 2

(* std::optional: <<>> is std::nullopt, <<v>> holds v. *)
NullOpt == <<>>

Some(v) == <<v>>

HasValue(o) == Len(o) = 1

Value(o) == o[1]

----------------------------------------------------------------------------
(* Data structures of placement_logic.h.  Coordinates holds doubles;
   Position, ItemData and ContainerData take lengths in units of 1e-6 and
   hold the doubles these decimal numbers are read as. *)

Coordinates(w, d, h) == [width |-> w, depth |-> d, height |-> h]

Position(sw, sd, sh, ew, ed, eh) ==
    [startCoordinates |-> Coordinates(FromMicro(sw), FromMicro(sd), FromMicro(sh)),
     endCoordinates   |-> Coordinates(FromMicro(ew), FromMicro(ed), FromMicro(eh))]

ItemData(id, w, d, h, prio, zone) ==
    [itemId |-> id, width |-> FromMicro(w), depth |-> FromMicro(d),
     height |-> FromMicro(h), priority |-> prio, preferredZone |-> zone]

ContainerData(id, zone, w, d, h) ==
    [containerId |-> id, zone |-> zone, width |-> FromMicro(w),
     depth |-> FromMicro(d), height |-> FromMicro(h)]

PlacementInfo(id, cid, pos, prio) ==
    [itemId |-> id, containerId |-> cid, position |-> pos, priority |-> prio]

PlacementResult(id, cid, pos) ==
    [itemId |-> id, containerId |-> cid, position |-> pos]

----------------------------------------------------------------------------
(* Geometry primitives. *)

boxes_overlap(pos1, pos2) ==
    ~(\/ DLe(pos1.endCoordinates.width,
             DAdd(pos2.startCoordinates.width, COORD_TOLERANCE))
      \/ DLe(pos2.endCoordinates.width,
             DAdd(pos1.startCoordinates.width, COORD_TOLERANCE))
      \/ DLe(pos1.endCoordinates.depth,
             DAdd(pos2.startCoordinates.depth, COORD_TOLERANCE))
      \/ DLe(pos2.endCoordinates.depth,
             DAdd(pos1.startCoordinates.depth, COORD_TOLERANCE))
      \/ DLe(pos1.endCoordinates.height,
             DAdd(pos2.startCoordinates.height, COORD_TOLERANCE))
      \/ DLe(pos2.endCoordinates.height,
             DAdd(pos1.startCoordinates.height, COORD_TOLERANCE)))

(* The support test of is_stable's loop body for one existing placement. *)
Supports(existing_placement, candidate_pos) ==
    /\ DLt(Abs(DSub(existing_placement.position.endCoordinates.height,
                    candidate_pos.startCoordinates.height)),
           COORD_TOLERANCE)
    /\ ~(\/ DLe(candidate_pos.endCoordinates.width,
                DAdd(existing_placement.position.startCoordinates.width, COORD_TOLERANCE))
         \/ DLe(existing_placement.position.endCoordinates.width,
                DAdd(candidate_pos.startCoordinates.width, COORD_TOLERANCE)))
    /\ ~(\/ DLe(candidate_pos.endCoordinates.depth,
                DAdd(existing_placement.position.startCoordinates.depth, COORD_TOLERANCE))
         \/ DLe(existing_placement.position.endCoordinates.depth,
                DAdd(candidate_pos.startCoordinates.depth, COORD_TOLERANCE)))

is_stable(candidate_pos, container, current_placements_in_container) ==
    \/ DLt(Abs(candidate_pos.startCoordinates.height), COORD_TOLERANCE)
    \/ \E i \in 1..Len(current_placements_in_container) :
          Supports(current_placements_in_container[i], candidate_pos)

----------------------------------------------------------------------------
(* find_spot_in_container. *)

orientations(item_req) ==
    << <<item_req.width, item_req.depth, item_req.height>>,
       <<item_req.width, item_req.height, item_req.depth>>,
       <<item_req.depth, item_req.width, item_req.height>>,
       <<item_req.depth, item_req.height, item_req.width>>,
       <<item_req.height, item_req.width, item_req.depth>>,
       <<item_req.height, item_req.depth, item_req.width>> >>

width_increment(container) == Max(DDivInt(container.width, GRID_DIVISOR), MIN_INCREMENT)

depth_increment(container) == Max(DDivInt(container.depth, GRID_DIVISOR), MIN_INCREMENT)

num_w_steps(container) == TruncDiv(container.width, width_increment(container)) + 2

num_d_steps(container) == TruncDiv(container.depth, depth_increment(container)) + 2

(* The four constants of the search grid, computed once per call. *)
SearchGrid(container) ==
    [width_increment |-> width_increment(container),
     depth_increment |-> depth_increment(container),
     num_w_steps     |-> num_w_steps(container),
     num_d_steps     |-> num_d_steps(container)]

(* COORD_TOLERANCE * 10 *)
DedupTolerance == DMulInt(HEIGHT_DEDUP_FACTOR, COORD_TOLERANCE)

(* The body of the loop that collects the base heights: top is inserted
   unless a height already in the set is within the tolerance of it. *)
InsertUnlessClose(heights, top) ==
    IF \E h \in heights : DLt(Abs(DSub(top, h)), DedupTolerance)
    THEN heights
    ELSE heights \cup {top}

(* base_height_set mutated: the floor is the only base height. *)
base_height_set_FloorOnly(current_placements_in_container, n) == {Zero}

(* base_height_set after the first n placements have been looked at. *)
RECURSIVE base_height_set(_, _)
base_height_set(current_placements_in_container, n) ==
    IF n = 0 THEN {Zero}
    ELSE InsertUnlessClose(base_height_set(current_placements_in_container, n - 1),
                           current_placements_in_container[n].position.endCoordinates.height)

(* The least element of a non-empty set of doubles. *)
Least(S) == CHOOSE x \in S : \A y \in S : DLe(x, y)

(* The elements of a set of doubles in ascending order (std::set iteration). *)
RECURSIVE Ascending(_)
Ascending(S) ==
    IF S = {} THEN <<>> ELSE <<Least(S)>> \o Ascending(S \ {Least(S)})

possible_base_heights(current_placements_in_container) ==
    Ascending(base_height_set(current_placements_in_container,
                              Len(current_placements_in_container)))

(* start_d_at mutated: the clamp has its upper end only, std::max(0.0, .) is lost. *)
start_d_at_NoFloor(container, depth_inc, item_d, d_idx, is_high_priority) ==
    Min(IF is_high_priority
        THEN DMulInt(d_idx, depth_inc)
        ELSE DSub(container.depth, DMulInt(d_idx + 1, depth_inc)),
        DSub(container.depth, item_d))

(* start_d_at mutated: the depth steps go from the front for every item. *)
start_d_at_FromFront(container, depth_inc, item_d, d_idx, is_high_priority) ==
    Max(Zero, Min(DMulInt(d_idx, depth_inc), DSub(container.depth, item_d)))

(* start_d of the d_idx-th depth step, after the clamp; depth_inc is the
   function's depth_increment. *)
start_d_at(container, depth_inc, item_d, d_idx, is_high_priority) ==
    Max(Zero,
        Min(IF is_high_priority
            THEN DMulInt(d_idx, depth_inc)
            ELSE DSub(container.depth, DMulInt(d_idx + 1, depth_inc)),
            DSub(container.depth, item_d)))

(* start_w of the w_idx-th width step, after the clamp; width_inc is the
   function's width_increment. *)
start_w_at(container, width_inc, item_w, w_idx) ==
    Max(Zero, Min(DMulInt(w_idx, width_inc), DSub(container.width, item_w)))

candidate_pos_at(start_w, start_d, start_h, ori) ==
    [startCoordinates |-> Coordinates(start_w, start_d, start_h),
     endCoordinates   |-> Coordinates(DAdd(start_w, ori[1]), DAdd(start_d, ori[2]),
                                      DAdd(start_h, ori[3]))]

(* x > limit + COORD_TOLERANCE *)
Exceeds(x, limit) == DLt(DAdd(limit, COORD_TOLERANCE), x)

(* CandidateValid mutated: the stability check is left out. *)
CandidateValid_NoStabilityCheck(candidate_pos, container, current_placements_in_container) ==
    /\ ~(\/ Exceeds(candidate_pos.endCoordinates.width, container.width)
         \/ Exceeds(candidate_pos.endCoordinates.depth, container.depth)
         \/ Exceeds(candidate_pos.endCoordinates.height, container.height))
    /\ ~\E i \in 1..Len(current_placements_in_container) :
           boxes_overlap(candidate_pos, current_placements_in_container[i].position)

(* CandidateValid mutated: the overlap check against the placed items is left out. *)
CandidateValid_NoOverlapCheck(candidate_pos, container, current_placements_in_container) ==
    /\ ~(\/ Exceeds(candidate_pos.endCoordinates.width, container.width)
         \/ Exceeds(candidate_pos.endCoordinates.depth, container.depth)
         \/ Exceeds(candidate_pos.endCoordinates.height, container.height))
    /\ is_stable(candidate_pos, container, current_placements_in_container)

(* The checks of the innermost loop body: boundary, overlap, stability. *)
CandidateValid(candidate_pos, container, current_placements_in_container) ==
    /\ ~(\/ Exceeds(candidate_pos.endCoordinates.width, container.width)
         \/ Exceeds(candidate_pos.endCoordinates.depth, container.depth)
         \/ Exceeds(candidate_pos.endCoordinates.height, container.height))
    /\ ~\E i \in 1..Len(current_placements_in_container) :
           boxes_overlap(candidate_pos, current_placements_in_container[i].position)
    /\ is_stable(candidate_pos, container, current_placements_in_container)

(* A loop that returns from its first iteration with a value: found is what
   the iteration gives, rest what the iterations after it give. *)
OrElse(found, rest) == IF HasValue(found) THEN found ELSE rest

(* The rest of the innermost loop body once candidate_pos is built: the spot
   is returned when the candidate passes the checks. *)
CheckCandidate(candidate_pos, ori, container, current) ==
    IF CandidateValid(candidate_pos, container, current)
    THEN Some([position |-> candidate_pos, orientation |-> ori])
    ELSE NullOpt

(* The body of the width loop for one start_w. *)
WidthStep(container, current, ori, start_h, start_d, start_w) ==
    IF Exceeds(DAdd(start_w, ori[1]), container.width) THEN NullOpt
    ELSE CheckCandidate(candidate_pos_at(start_w, start_d, start_h, ori), ori,
                        container, current)

(* The width loop from w_idx on: the first valid spot, or nullopt. *)
RECURSIVE WidthLoop(_, _, _, _, _, _, _)
WidthLoop(container, grid, current, ori, start_h, start_d, w_idx) ==
    IF w_idx >= grid.num_w_steps THEN NullOpt
    ELSE OrElse(WidthStep(container, current, ori, start_h, start_d,
                          start_w_at(container, grid.width_increment, ori[1], w_idx)),
                WidthLoop(container, grid, current, ori, start_h, start_d, w_idx + 1))

(* The body of the depth loop for one start_d. *)
DepthStep(container, grid, current, ori, start_h, start_d) ==
    IF Exceeds(DAdd(start_d, ori[2]), container.depth) THEN NullOpt
    ELSE WidthLoop(container, grid, current, ori, start_h, start_d, 0)

(* The depth loop from d_idx on. *)
RECURSIVE DepthLoop(_, _, _, _, _, _, _)
DepthLoop(container, grid, current, ori, start_h, is_high_priority, d_idx) ==
    IF d_idx >= grid.num_d_steps THEN NullOpt
    ELSE OrElse(DepthStep(container, grid, current, ori, start_h,
                          start_d_at(container, grid.depth_increment, ori[2], d_idx,
                                     is_high_priority)),
                DepthLoop(container, grid, current, ori, start_h, is_high_priority,
                          d_idx + 1))

(* The body of the base-height loop for one start_h. *)
HeightStep(container, grid, current, ori, start_h, is_high_priority) ==
    IF Exceeds(DAdd(start_h, ori[3]), container.height) THEN NullOpt
    ELSE DepthLoop(container, grid, current, ori, start_h, is_high_priority, 0)

(* HeightLoop mutated: the base heights are tried from the highest down. *)
RECURSIVE HeightLoop_TopDown(_, _, _, _, _, _, _)
HeightLoop_TopDown(container, grid, current, ori, heights, is_high_priority, h_idx) ==
    IF h_idx > Len(heights) THEN NullOpt
    ELSE OrElse(HeightStep(container, grid, current, ori,
                           heights[Len(heights) + 1 - h_idx], is_high_priority),
                HeightLoop_TopDown(container, grid, current, ori, heights,
                                   is_high_priority, h_idx + 1))

(* The base-height loop from the h_idx-th height on. *)
RECURSIVE HeightLoop(_, _, _, _, _, _, _)
HeightLoop(container, grid, current, ori, heights, is_high_priority, h_idx) ==
    IF h_idx > Len(heights) THEN NullOpt
    ELSE OrElse(HeightStep(container, grid, current, ori, heights[h_idx],
                           is_high_priority),
                HeightLoop(container, grid, current, ori, heights, is_high_priority,
                           h_idx + 1))

(* The body of the orientation loop for one orientation. *)
OrientationStep(container, grid, current, ori, heights, is_high_priority) ==
    IF \/ Exceeds(ori[1], container.width)
       \/ Exceeds(ori[2], container.depth)
       \/ Exceeds(ori[3], container.height)
    THEN NullOpt
    ELSE HeightLoop(container, grid, current, ori, heights, is_high_priority, 1)

(* The orientation loop from the o_idx-th orientation on. *)
RECURSIVE OrientationLoop(_, _, _, _, _, _, _)
OrientationLoop(item_req, container, grid, current, heights, is_high_priority, o_idx) ==
    IF o_idx > 6 THEN NullOpt
    ELSE OrElse(OrientationStep(container, grid, current, orientations(item_req)[o_idx],
                                heights, is_high_priority),
                OrientationLoop(item_req, container, grid, current, heights,
                                is_high_priority, o_idx + 1))

find_spot_in_container(item_req, container, current_placements_in_container, is_high_priority) ==
    OrientationLoop(item_req, container, SearchGrid(container),
                    current_placements_in_container,
                    possible_base_heights(current_placements_in_container),
                    is_high_priority, 1)

----------------------------------------------------------------------------
(* Containers of std::map / std::vector used by suggest_placements_cpp. *)

(* std::map::operator[] on a missing key creates the key with an empty value. *)
MapTouch(m, k, empty) ==
    IF k \in DOMAIN m THEN m ELSE [x \in DOMAIN m \cup {k} |-> IF x = k THEN empty ELSE m[x]]

(* m[k] = v *)
MapPut(m, k, v) == [x \in DOMAIN m \cup {k} |-> IF x = k THEN v ELSE m[x]]

(* SimPush mutated: the new placement takes the place of the container's
   last one. *)
SimPush_OverLast(sim, container_id, info) ==
    LET t == MapTouch(sim, container_id, <<>>)
    IN  [t EXCEPT ![container_id] =
            IF @ = <<>> THEN <<info>> ELSE [@ EXCEPT ![Len(@)] = info]]

(* simulation_placements[container_id].push_back(info) *)
SimPush(sim, container_id, info) ==
    LET t == MapTouch(sim, container_id, <<>>)
    IN  [t EXCEPT ![container_id] = Append(@, info)]

EmptyMap == [x \in {} |-> <<>>]

(* containers_map after the loop over containers_input: a later container of
   the same id replaces an earlier one. *)
containers_map_of(containers) ==
    [cid \in {containers[i].containerId : i \in 1..Len(containers)} |->
        LET last == CHOOSE i \in 1..Len(containers) :
                        /\ containers[i].containerId = cid
                        /\ \A j \in 1..Len(containers) :
                               containers[j].containerId = cid => j <= i
        IN  containers[last]]

container_ids_of(containers) == [i \in 1..Len(containers) |-> containers[i].containerId]

(* The item ids the model uses, in the order of std::string's operator<,
   which is the iteration order of final_placements_map. *)
ItemIdsInOrder == <<"A", "B", "H", "L", "S", "T">>

(* final_placements_map seeded from current_db_placements: for each container
   key and each of its placements, map[itemId] = {itemId, key, position}.  The
   containers are visited in key order and a later entry of the same itemId
   replaces an earlier one. *)
ContainerIdsInOrder == <<"C1", "C2", "C9">>

RECURSIVE SeedFinalFromVector(_, _, _, _)
SeedFinalFromVector(final, container_id, placements, n) ==
    IF n > Len(placements) THEN final
    ELSE SeedFinalFromVector(
             MapPut(final, placements[n].itemId,
                    PlacementResult(placements[n].itemId, container_id,
                                    placements[n].position)),
             container_id, placements, n + 1)

RECURSIVE SeedFinal(_, _, _)
SeedFinal(final, db, k) ==
    IF k > Len(ContainerIdsInOrder) THEN final
    ELSE LET cid == ContainerIdsInOrder[k]
         IN  SeedFinal(IF cid \in DOMAIN db
                       THEN SeedFinalFromVector(final, cid, db[cid], 1)
                       ELSE final,
                       db, k + 1)

----------------------------------------------------------------------------
(* std::sort by priority descending.  std::sort is not a stable sort: the
   order it leaves items of equal priority in is unspecified, so every
   arrangement of the input that is non-increasing in priority is an outcome. *)

Perms(n) == {p \in [1..n -> 1..n] : \A i, j \in 1..n : i # j => p[i] # p[j]}

Permuted(items, p) == [i \in 1..Len(items) |-> items[p[i]]]

(* SortOutcomes mutated: the items are left in any order. *)
SortOutcomes_AnyOrder(items) == {Permuted(items, p) : p \in Perms(Len(items))}

SortOutcomes(items) ==
    {Permuted(items, p) : p \in
        {q \in Perms(Len(items)) :
            \A i \in 1..(Len(items) - 1) :
                ~(items[q[i + 1]].priority > items[q[i]].priority)}}

(* What std::stable_sort would return: ties keep their input order. *)
StableSorted(items) ==
    Permuted(items,
        CHOOSE q \in Perms(Len(items)) :
            \A i \in 1..(Len(items) - 1) :
                \/ items[q[i]].priority > items[q[i + 1]].priority
                \/ /\ items[q[i]].priority = items[q[i + 1]].priority
                   /\ q[i] < q[i + 1])

----------------------------------------------------------------------------
(* The phases of suggest_placements_cpp over the engine's local state
   st = [sim, final, processed, pass2, failed, success, error]. *)

(* ContainerLoop mutated: the zone of the container is not compared. *)
RECURSIVE ContainerLoop_IgnoreZone(_, _, _, _, _, _, _)
ContainerLoop_IgnoreZone(item_req, zone, is_high_prio, container_ids, containers_map, sim, c_idx) ==
    IF c_idx > Len(container_ids) THEN [found |-> FALSE, sim |-> sim]
    ELSE LET container_id == container_ids[c_idx]
             container == containers_map[container_id]
             touched == MapTouch(sim, container_id, <<>>)
             spot_result == find_spot_in_container(
                                item_req, container, touched[container_id],
                                is_high_prio)
         IN  IF HasValue(spot_result)
             THEN [found |-> TRUE, sim |-> touched,
                   container_id |-> container_id,
                   found_pos |-> Value(spot_result).position]
             ELSE ContainerLoop_IgnoreZone(item_req, zone, is_high_prio, container_ids,
                                           containers_map, touched, c_idx + 1)

(* The loop over container_ids of Phase 1 (zone = Some(preferred zone)) and of
   Phase 3 (zone = NullOpt: every container is tried), from index c_idx on.
   Returns the first container with a spot, and the simulation map with the
   keys operator[] created on the way. *)
RECURSIVE ContainerLoop(_, _, _, _, _, _, _)
ContainerLoop(item_req, zone, is_high_prio, container_ids, containers_map, sim, c_idx) ==
    IF c_idx > Len(container_ids) THEN [found |-> FALSE, sim |-> sim]
    ELSE LET container_id == container_ids[c_idx]
             container == containers_map[container_id]
         IN  IF HasValue(zone) /\ container.zone # Value(zone)
             THEN ContainerLoop(item_req, zone, is_high_prio, container_ids,
                                containers_map, sim, c_idx + 1)
             ELSE LET touched == MapTouch(sim, container_id, <<>>)
                      spot_result == find_spot_in_container(
                                         item_req, container, touched[container_id],
                                         is_high_prio)
                  IN  IF HasValue(spot_result)
                      THEN [found |-> TRUE, sim |-> touched,
                            container_id |-> container_id,
                            found_pos |-> Value(spot_result).position]
                      ELSE ContainerLoop(item_req, zone, is_high_prio, container_ids,
                                         containers_map, touched, c_idx + 1)

(* Commit mutated: the final map is started afresh with the committed item. *)
Commit_FreshFinal(st, item_req, r) ==
    [st EXCEPT
        !.sim = SimPush(r.sim, r.container_id,
                        PlacementInfo(item_req.itemId, r.container_id, r.found_pos,
                                      item_req.priority)),
        !.final = MapPut(EmptyMap, item_req.itemId,
                         PlacementResult(item_req.itemId, r.container_id, r.found_pos)),
        !.processed = @ \cup {item_req.itemId}]

(* The commit of a found spot: simulation state, final map, processed set. *)
Commit(st, item_req, r) ==
    [st EXCEPT
        !.sim = SimPush(r.sim, r.container_id,
                        PlacementInfo(item_req.itemId, r.container_id, r.found_pos,
                                      item_req.priority)),
        !.final = MapPut(@, item_req.itemId,
                         PlacementResult(item_req.itemId, r.container_id, r.found_pos)),
        !.processed = @ \cup {item_req.itemId}]

(* One iteration of the Phase 1 loop. *)
Phase1Item(st, item_req, containers) ==
    IF item_req.itemId \in st.processed THEN st
    ELSE LET is_high_prio == item_req.priority >= HIGH_PRIORITY_THRESHOLD
             r == IF HasValue(item_req.preferredZone)
                  THEN ContainerLoop(item_req, item_req.preferredZone, is_high_prio,
                                     container_ids_of(containers),
                                     containers_map_of(containers), st.sim, 1)
                  ELSE [found |-> FALSE, sim |-> st.sim]
         IN  IF r.found THEN Commit(st, item_req, r)
             ELSE [st EXCEPT !.sim = r.sim, !.pass2 = Append(@, item_req)]

(* MarkFailed mutated: output.success is left as it is. *)
MarkFailed_KeepSuccess(st, item_req) ==
    [st EXCEPT
        !.failed = Append(@, item_req.itemId),
        !.processed = @ \cup {item_req.itemId},
        !.error = IF HasValue(@) THEN @
                  ELSE Some(<<"Placement failed for one or more items.">>)]

(* The failure branch of the Phase 3 loop. *)
MarkFailed(st, item_req) ==
    [st EXCEPT
        !.failed = Append(@, item_req.itemId),
        !.processed = @ \cup {item_req.itemId},
        !.success = FALSE,
        !.error = IF HasValue(@) THEN @
                  ELSE Some(<<"Placement failed for one or more items.">>)]

(* Phase3Item mutated: once an item has failed, the items after it are not
   attempted. *)
Phase3Item_AbortAfterFailure(st, item_req, containers) ==
    IF item_req.itemId \in st.processed \/ st.failed # <<>> THEN st
    ELSE LET is_high_prio == item_req.priority >= HIGH_PRIORITY_THRESHOLD
             r == ContainerLoop(item_req, NullOpt, is_high_prio,
                                container_ids_of(containers),
                                containers_map_of(containers), st.sim, 1)
         IN  IF r.found THEN Commit(st, item_req, r)
             ELSE MarkFailed([st EXCEPT !.sim = r.sim], item_req)

(* Phase3Item mutated: an item with a preferred zone is tried in the
   containers of that zone only. *)
Phase3Item_PreferredOnly(st, item_req, containers) ==
    IF item_req.itemId \in st.processed THEN st
    ELSE LET is_high_prio == item_req.priority >= HIGH_PRIORITY_THRESHOLD
             r == ContainerLoop(item_req, item_req.preferredZone, is_high_prio,
                                container_ids_of(containers),
                                containers_map_of(containers), st.sim, 1)
         IN  IF r.found THEN Commit(st, item_req, r)
             ELSE MarkFailed([st EXCEPT !.sim = r.sim], item_req)

(* One iteration of the Phase 3 loop. *)
Phase3Item(st, item_req, containers) ==
    IF item_req.itemId \in st.processed THEN st
    ELSE LET is_high_prio == item_req.priority >= HIGH_PRIORITY_THRESHOLD
             r == ContainerLoop(item_req, NullOpt, is_high_prio,
                                container_ids_of(containers),
                                containers_map_of(containers), st.sim, 1)
         IN  IF r.found THEN Commit(st, item_req, r)
             ELSE MarkFailed([st EXCEPT !.sim = r.sim], item_req)

(* PlacementsFrom mutated: the failed ids are not filtered out. *)
RECURSIVE PlacementsFrom_KeepFailed(_, _, _)
PlacementsFrom_KeepFailed(final, failed, k) ==
    IF k > Len(ItemIdsInOrder) THEN <<>>
    ELSE LET id == ItemIdsInOrder[k]
         IN  (IF id \in DOMAIN final THEN <<final[id]>> ELSE <<>>)
             \o PlacementsFrom_KeepFailed(final, failed, k + 1)

(* Phase 4: output.placements is final_placements_map in key order without
   the failed ids. *)
RECURSIVE PlacementsFrom(_, _, _)
PlacementsFrom(final, failed, k) ==
    IF k > Len(ItemIdsInOrder) THEN <<>>
    ELSE LET id == ItemIdsInOrder[k]
             is_failed == \E i \in 1..Len(failed) : failed[i] = id
         IN  (IF id \in DOMAIN final /\ ~is_failed THEN <<final[id]>> ELSE <<>>)
             \o PlacementsFrom(final, failed, k + 1)

(* The PlacementOutput returned for the local state st. *)
FormatOutput(st) ==
    [success |-> st.success,
     error |-> IF st.failed # <<>>
               THEN Some(<<"Placement incomplete. Failed items: ", st.failed>>)
               ELSE st.error,
     placements |-> PlacementsFrom(st.final, st.failed, 1),
     rearrangements |-> <<>>,
     failedItemIds |-> st.failed]

(* InitialState mutated: final_placements_map is not seeded from the database. *)
InitialState_EmptyFinal(db) ==
    [sim |-> db,
     final |-> EmptyMap,
     processed |-> {},
     pass2 |-> <<>>,
     failed |-> <<>>,
     success |-> TRUE,
     error |-> NullOpt]

(* Phase 0: the local state after initialization. *)
InitialState(db) ==
    [sim |-> db,
     final |-> SeedFinal(EmptyMap, db, 1),
     processed |-> {},
     pass2 |-> <<>>,
     failed |-> <<>>,
     success |-> TRUE,
     error |-> NullOpt]

(* The whole call for one outcome of the sort, as a function of its inputs. *)
RECURSIVE RunPhase1(_, _, _, _)
RunPhase1(st, sorted, containers, i) ==
    IF i > Len(sorted) THEN st
    ELSE RunPhase1(Phase1Item(st, sorted[i], containers), sorted, containers, i + 1)

RECURSIVE RunPhase3(_, _, _, _)
RunPhase3(st, pass3, containers, i) ==
    IF i > Len(pass3) THEN st
    ELSE RunPhase3(Phase3Item(st, pass3[i], containers), pass3, containers, i + 1)

RunSorted(sorted, containers, db) ==
    LET s1 == RunPhase1(InitialState(db), sorted, containers, 1)
        s3 == RunPhase3([s1 EXCEPT !.pass2 = <<>>], s1.pass2, containers, 1)
    IN  FormatOutput(s3)

----------------------------------------------------------------------------
(* The inputs the specification enumerates, their lengths in units of 1e-6.
   Lengths are multiples of the minimal grid increment; one item is one
   tolerance unit wider than a container. *)

(* 0.02 in units of 1e-6. *)
U == 20000

ContainerLists ==
    { << ContainerData("C1", "Z1", 2 * U, U, 2 * U),
         ContainerData("C2", "Z2", U, 2 * U, U) >>,
      << ContainerData("C1", "Z1", 2 * U, U, 2 * U),
         ContainerData("C2", "Z1", U, 2 * U, U) >> }

(* current_db_placements, in this order:
   no placement;
   the floor of C1 covered by S;
   S in C1 with nothing under it;
   S in a container that is not among the containers;
   S reaching out of C1, and C2 full;
   S and T side by side on the floor of C1, T's top 5 units below S's;
   the id S placed in C1 and in C2;
   C1 full and the front half of C2 taken. *)
SeedMaps ==
    { EmptyMap,
      [c \in {"C1"} |->
          << PlacementInfo("S", "C1", Position(0, 0, 0, 2 * U, U, U), 10) >>],
      [c \in {"C1"} |->
          << PlacementInfo("S", "C1", Position(0, 0, U, U, U, 2 * U), 10) >>],
      [c \in {"C9"} |->
          << PlacementInfo("S", "C9", Position(0, 0, 0, U, U, U), 10) >>],
      [c \in {"C1", "C2"} |->
          IF c = "C1"
          THEN << PlacementInfo("S", "C1", Position(U, 0, 0, 3 * U, U, U), 10) >>
          ELSE << PlacementInfo("T", "C2", Position(0, 0, 0, U, 2 * U, U), 90) >>],
      [c \in {"C1"} |->
          << PlacementInfo("S", "C1", Position(U, 0, 0, 2 * U, U, U), 10),
             PlacementInfo("T", "C1", Position(0, 0, 0, U, U, U - 5), 10) >>],
      [c \in {"C1", "C2"} |->
          << PlacementInfo("S", c, Position(0, 0, 0, U, U, U), 10) >>],
      [c \in {"C1", "C2"} |->
          IF c = "C1"
          THEN << PlacementInfo("S", "C1", Position(0, 0, 0, 2 * U, U, 2 * U), 10) >>
          ELSE << PlacementInfo("T", "C2", Position(0, 0, 0, U, U, U), 90) >>] }

ItemPool ==
    { ItemData("A", U, U, U, 50, Some("Z1")),
      ItemData("B", U, U, U, 50, Some("Z1")),
      ItemData("S", U, U, U, 50, Some("Z1")),
      ItemData("B", 2 * U, U, 2 * U, 50, Some("Z1")),
      ItemData("A", U, U, U, 80, Some("Z2")),
      ItemData("B", 0, U, U, 50, NullOpt),
      ItemData("A", 2 * U + 1, U, U, 80, Some("Z1")),
      ItemData("B", U, 2 * U, U, 90, NullOpt) }

ItemLists == UNION {[1..n -> ItemPool] : n \in 0..MaxItems}

(* 1.0 in units of 1e-6. *)
Metre == 50 * U

(* A container whose cavity is n x n x n. *)
Cube(id, zone, n) == ContainerData(id, zone, n * Metre, n * Metre, n * Metre)

(* The calls of the reference scenarios, in this order:
   item A (2, 3, 1) into the empty C1 (10, 10, 10), at priorities around the
   high-priority threshold;
   A (2, 2, 1) of priority 80 into C1 (4, 4, 4) whose floor is covered by B;
   H (4, 4, 2) of priority 90 preferring the zone of C1 (4, 4, 4), whose floor is
   covered by L of priority 10, with C2 (4, 4, 4) empty, and the same call
   with H (4, 4, 4);
   A (2, 2, 2) into C1 (1, 1, 1);
   A (1, 1, 1) preferring zone Z3 with C1 (zone Z1) and C2 (zone Z2), (5, 5, 5);
   and, outside the reference scenarios, A (0.02, 0.005, 0.02) into the empty
   C1 (0.04, 0.01, 0.04), a container shallower than the minimal depth step;
   A and B (0.02, 0.02, 0.02) into C1 (0.06, 0.02, 0.02) whose first third is
   taken by S: the last start, 0.06 - 0.02, is the double below 0.04. *)
ScenarioCalls ==
    {[items |-> << ItemData("A", 2 * Metre, 3 * Metre, Metre, p, Some("Z1")) >>,
      containers |-> << Cube("C1", "Z1", 10) >>,
      db |-> EmptyMap] : p \in {50, 74, 75, 80}}
    \cup
    {[items |-> << ItemData("A", 2 * Metre, 2 * Metre, Metre, 80, NullOpt) >>,
      containers |-> << Cube("C1", "Z1", 4) >>,
      db |-> [c \in {"C1"} |->
                << PlacementInfo("B", "C1",
                                 Position(0, 0, 0, 4 * Metre, 4 * Metre, Metre), 50) >>]],
     [items |-> << ItemData("H", 4 * Metre, 4 * Metre, 2 * Metre, 90, Some("Z1")) >>,
      containers |-> << Cube("C1", "Z1", 4), Cube("C2", "Z2", 4) >>,
      db |-> [c \in {"C1"} |->
                << PlacementInfo("L", "C1",
                                 Position(0, 0, 0, 4 * Metre, 4 * Metre, Metre), 10) >>]],
     [items |-> << ItemData("H", 4 * Metre, 4 * Metre, 4 * Metre, 90, Some("Z1")) >>,
      containers |-> << Cube("C1", "Z1", 4), Cube("C2", "Z2", 4) >>,
      db |-> [c \in {"C1"} |->
                << PlacementInfo("L", "C1",
                                 Position(0, 0, 0, 4 * Metre, 4 * Metre, Metre), 10) >>]],
     [items |-> << ItemData("A", 2 * Metre, 2 * Metre, 2 * Metre, 50, NullOpt) >>,
      containers |-> << Cube("C1", "Z1", 1) >>,
      db |-> EmptyMap],
     [items |-> << ItemData("A", Metre, Metre, Metre, 50, Some("Z3")) >>,
      containers |-> << Cube("C1", "Z1", 5), Cube("C2", "Z2", 5) >>,
      db |-> EmptyMap],
     [items |-> << ItemData("A", U, U \div 4, U, 50, Some("Z1")) >>,
      containers |-> << ContainerData("C1", "Z1", 2 * U, U \div 2, 2 * U) >>,
      db |-> EmptyMap],
     [items |-> << ItemData("A", U, U, U, 50, Some("Z1")),
                   ItemData("B", U, U, U, 50, Some("Z1")) >>,
      containers |-> << ContainerData("C1", "Z1", 3 * U, U, U) >>,
      db |-> [c \in {"C1"} |->
                << PlacementInfo("S", "C1", Position(0, 0, 0, U, U, U), 10) >>]]}

----------------------------------------------------------------------------
(* The call of suggest_placements_cpp as a state machine: one step per phase
   and per iteration of the item loops of Phase 1 and Phase 3. *)

VARIABLES
    items_to_place_input,              \* argument
    containers_input,                  \* argument
    current_db_placements,             \* argument
    pc,                                \* the phase the call is in
    idx,                               \* the next element of the running item loop
    sorted_incoming_items,
    simulation_placements,
    final_placements_map,
    processed_item_ids,
    items_requiring_placement_pass_2,
    items_requiring_placement_pass_3,
    output,
    spot_input,                        \* the arguments of a direct find_spot_in_container call
    spot_result,                       \* and what it returned
    placement_jobs,                    \* table placement_jobs: status, request_data, error_message by job_id
    row_lock,                          \* the transaction holding the row lock of each job
    job_results_placements,            \* table job_results_placements, rows by job_id
    job_results_rearrangements,        \* table job_results_rearrangements, rows by job_id
    worker_pc,                         \* where each worker is in main()'s loop
    current_job_id,                    \* main()'s local of each worker
    placement_results,                 \* main()'s local of each worker
    error_message,                     \* main()'s local of each worker; set when processing_error is
    job_history,                       \* per job: who claimed it, what the engine returned, whether processing threw
    engine_results                     \* suggest_placements_cpp tabulated for the requests of the jobs

vars == <<items_to_place_input, containers_input, current_db_placements, pc, idx,
          sorted_incoming_items, simulation_placements, final_placements_map,
          processed_item_ids, items_requiring_placement_pass_2,
          items_requiring_placement_pass_3, output, spot_input, spot_result,
          placement_jobs, row_lock, job_results_placements, job_results_rearrangements,
          worker_pc, current_job_id, placement_results, error_message, job_history,
          engine_results>>

inputs == <<items_to_place_input, containers_input, current_db_placements>>

spot_vars == <<spot_input, spot_result>>

worker_vars == <<placement_jobs, row_lock, job_results_placements,
                 job_results_rearrangements, worker_pc, current_job_id,
                 placement_results, error_message, job_history, engine_results>>

(* No worker process and no job: the state of the worker's variables while
   the engine is looked at on its own. *)
NoWorkers ==
    /\ placement_jobs = <<>>
    /\ row_lock = <<>>
    /\ job_results_placements = <<>>
    /\ job_results_rearrangements = <<>>
    /\ worker_pc = <<>>
    /\ current_job_id = <<>>
    /\ placement_results = <<>>
    /\ error_message = <<>>
    /\ job_history = <<>>
    /\ engine_results = {}

(* PlacementOutput output; output.success = true; *)
EmptyOutput ==
    [success |-> TRUE, error |-> NullOpt, placements |-> <<>>,
     rearrangements |-> <<>>, failedItemIds |-> <<>>]

Init ==
    /\ \/ /\ items_to_place_input \in ItemLists
          /\ containers_input \in ContainerLists
          /\ current_db_placements \in SeedMaps
       \/ \E call \in ScenarioCalls :
             /\ items_to_place_input = call.items
             /\ containers_input = call.containers
             /\ current_db_placements = call.db
    /\ pc = "phase0"
    /\ idx = 1
    /\ sorted_incoming_items = <<>>
    /\ simulation_placements = EmptyMap
    /\ final_placements_map = EmptyMap
    /\ processed_item_ids = {}
    /\ items_requiring_placement_pass_2 = <<>>
    /\ items_requiring_placement_pass_3 = <<>>
    /\ output = EmptyOutput
    /\ spot_input = NullOpt
    /\ spot_result = NullOpt
    /\ NoWorkers

(* The local state of the call as one record, and its assignment. *)
LocalState ==
    [sim |-> simulation_placements,
     final |-> final_placements_map,
     processed |-> processed_item_ids,
     pass2 |-> items_requiring_placement_pass_2,
     failed |-> output.failedItemIds,
     success |-> output.success,
     error |-> output.error]

Assign(st) ==
    /\ simulation_placements' = st.sim
    /\ final_placements_map' = st.final
    /\ processed_item_ids' = st.processed
    /\ items_requiring_placement_pass_2' = st.pass2
    /\ output' = [output EXCEPT !.failedItemIds = st.failed,
                                !.success = st.success,
                                !.error = st.error]

(* Phase 0: sort, clone the simulation state, seed the final map. *)
Phase0 ==
    /\ pc = "phase0"
    /\ sorted_incoming_items' \in SortOutcomes(items_to_place_input)
    /\ Assign(InitialState(current_db_placements))
    /\ pc' = "phase1"
    /\ idx' = 1
    /\ UNCHANGED <<inputs, spot_vars, worker_vars, items_requiring_placement_pass_3>>

(* Phase 1: one iteration of the loop over sorted_incoming_items. *)
Phase1Step ==
    /\ pc = "phase1"
    /\ idx <= Len(sorted_incoming_items)
    /\ Assign(Phase1Item(LocalState, sorted_incoming_items[idx], containers_input))
    /\ idx' = idx + 1
    /\ UNCHANGED <<inputs, spot_vars, worker_vars, pc, sorted_incoming_items, items_requiring_placement_pass_3>>

(* Phase 2: the backlog is handed to Phase 3 as it is. *)
Phase2 ==
    /\ pc = "phase1"
    /\ idx > Len(sorted_incoming_items)
    /\ items_requiring_placement_pass_3' = items_requiring_placement_pass_2
    /\ items_requiring_placement_pass_2' = <<>>
    /\ pc' = "phase3"
    /\ idx' = 1
    /\ UNCHANGED <<inputs, spot_vars, worker_vars, sorted_incoming_items, simulation_placements,
                   final_placements_map, processed_item_ids, output>>

(* Phase 3: one iteration of the loop over items_requiring_placement_pass_3. *)
Phase3Step ==
    /\ pc = "phase3"
    /\ idx <= Len(items_requiring_placement_pass_3)
    /\ Assign(Phase3Item(LocalState, items_requiring_placement_pass_3[idx],
                         containers_input))
    /\ idx' = idx + 1
    /\ UNCHANGED <<inputs, spot_vars, worker_vars, pc, sorted_incoming_items, items_requiring_placement_pass_3>>

(* Phase 4: the output is formatted and returned. *)
Phase4 ==
    /\ pc = "phase3"
    /\ idx > Len(items_requiring_placement_pass_3)
    /\ output' = FormatOutput(LocalState)
    /\ pc' = "done"
    /\ UNCHANGED <<inputs, spot_vars, worker_vars, idx, sorted_incoming_items, simulation_placements,
                   final_placements_map, processed_item_ids,
                   items_requiring_placement_pass_2, items_requiring_placement_pass_3>>

Next == Phase0 \/ Phase1Step \/ Phase2 \/ Phase3Step \/ Phase4

Spec == Init /\ [][Next]_vars

----------------------------------------------------------------------------
(* find_spot_in_container called on its own: the arguments are drawn from the
   sets below and one step applies the function to them. *)

(* The longest list of placed items the direct calls enumerate. *)
MaxPlaced == 2

SpotContainers ==
    { ContainerData("C1", "Z1", 2 * U, U, 2 * U),
      ContainerData("C1", "Z1", 2 * U, 2 * U, 2 * U) }

(* Placed items, in this order: the left and the right half of the front
   floor row; the left half with its top 5 units lower; a placement with
   nothing under it; the back floor row; the whole front floor row. *)
SpotPlacementPool ==
    { PlacementInfo("S", "C1", Position(0, 0, 0, U, U, U), 10),
      PlacementInfo("T", "C1", Position(U, 0, 0, 2 * U, U, U), 10),
      PlacementInfo("T", "C1", Position(0, 0, 0, U, U, U - 5), 10),
      PlacementInfo("S", "C1", Position(0, 0, U, U, U, 2 * U), 10),
      PlacementInfo("S", "C1", Position(0, U, 0, 2 * U, 2 * U, U), 10),
      PlacementInfo("S", "C1", Position(0, 0, 0, 2 * U, U, U), 10) }

SpotPlacedLists == UNION {[1..n -> SpotPlacementPool] : n \in 0..MaxPlaced}

SpotItems ==
    { ItemData("A", U, U, U, 50, NullOpt),
      ItemData("A", 2 * U, U, U, 50, NullOpt),
      ItemData("A", U, U, 2 * U, 50, NullOpt),
      ItemData("A", 2 * U + 1, U, U, 50, NullOpt),
      ItemData("A", U, 2 * U, U, 50, NullOpt),
      ItemData("A", 3 * U, U, U, 50, NullOpt) }

(* The arguments of one call. *)
SpotCall(item_req, container, current_placements_in_container, is_high_priority) ==
    [item_req |-> item_req, container |-> container,
     current_placements_in_container |-> current_placements_in_container,
     is_high_priority |-> is_high_priority]

(* Calls whose arithmetic is inexact, in this order: a container of width
   0.06, where the clamp 0.06 - 0.02 is the double below 0.04, with the left
   two thirds of its floor taken, and with three placements that end within a
   few tolerances of the grid; a container of width 0.500001, whose width
   increment 0.500001 / 25.0 is rounded, with the first grid cell taken. *)
RoundingCalls ==
    {SpotCall(ItemData("A", U, U, U, 50, NullOpt),
              ContainerData("C1", "Z1", 3 * U, U, U),
              << PlacementInfo("S", "C1", Position(0, 0, 0, 2 * U, U, U), 10) >>,
              f) : f \in BOOLEAN}
    \cup
    {SpotCall(ItemData("A", U, 2 * U, U, 50, NullOpt),
              ContainerData("C1", "Z1", 3 * U, 2 * U, 2 * U),
              << PlacementInfo("S", "C1",
                               Position(10000, 10000, 0, 29999, 50000, 19995), 10),
                 PlacementInfo("T", "C1",
                               Position(1, 10000, 0, 20000, 20000, 19995), 10),
                 PlacementInfo("V", "C1",
                               Position(20000, 20000, 0, 40001, 40000, 20000), 10) >>,
              f) : f \in BOOLEAN}
    \cup
    {SpotCall(ItemData("A", U, U, U, 50, NullOpt),
              ContainerData("C1", "Z1", 25 * U + 1, U, U),
              << PlacementInfo("S", "C1", Position(0, 0, 0, U, U, U), 10) >>,
              f) : f \in BOOLEAN}

(* The enumerated calls, the spot searches of the reference scenarios:
   (2, 3, 1) into the empty (10, 10, 10); (2, 2, 1) into (4, 4, 4) whose floor
   is covered; and the calls with inexact arithmetic. *)
SpotInputs ==
    RoundingCalls
    \cup
    {SpotCall(i, c, l, f) :
        i \in SpotItems, c \in SpotContainers, l \in SpotPlacedLists, f \in BOOLEAN}
    \cup
    {SpotCall(ItemData("A", 2 * Metre, 3 * Metre, Metre, 50, NullOpt),
              Cube("C1", "Z1", 10), <<>>, f) : f \in BOOLEAN}
    \cup
    {SpotCall(ItemData("A", 2 * Metre, 2 * Metre, Metre, 80, NullOpt),
              Cube("C1", "Z1", 4),
              << PlacementInfo("B", "C1",
                               Position(0, 0, 0, 4 * Metre, 4 * Metre, Metre), 50) >>,
              f) : f \in BOOLEAN}

FindSpotInit ==
    /\ spot_input \in {Some(c) : c \in SpotInputs}
    /\ spot_result = NullOpt
    /\ pc = "find_spot"
    /\ items_to_place_input = <<>>
    /\ containers_input = <<>>
    /\ current_db_placements = EmptyMap
    /\ idx = 1
    /\ sorted_incoming_items = <<>>
    /\ simulation_placements = EmptyMap
    /\ final_placements_map = EmptyMap
    /\ processed_item_ids = {}
    /\ items_requiring_placement_pass_2 = <<>>
    /\ items_requiring_placement_pass_3 = <<>>
    /\ output = EmptyOutput
    /\ NoWorkers

(* The call: spot_result holds the std::optional the function returned. *)
FindSpotCall ==
    /\ pc = "find_spot"
    /\ spot_result' = Some(find_spot_in_container(
                                Value(spot_input).item_req,
                                Value(spot_input).container,
                                Value(spot_input).current_placements_in_container,
                                Value(spot_input).is_high_priority))
    /\ pc' = "find_spot_done"
    /\ UNCHANGED <<inputs, worker_vars, spot_input, idx, sorted_incoming_items,
                   simulation_placements, final_placements_map, processed_item_ids,
                   items_requiring_placement_pass_2, items_requiring_placement_pass_3,
                   output>>

FindSpotNext == FindSpotCall

FindSpotSpec == FindSpotInit /\ [][FindSpotNext]_vars

----------------------------------------------------------------------------
(* The worker of main.cpp: processes that poll the table placement_jobs, each
   running main()'s loop on its own database connection.  A transaction's
   writes reach the tables when it commits and are dropped when a statement
   throws; a row lock taken by SELECT ... FOR UPDATE is held until the
   transaction ends. *)

(* The number of rows of placement_jobs; job_id is the position in the order
   of created_at. *)
MaxJobs == 2

Jobs == 1..MaxJobs

NoJob == 0

Workers == {"worker1", "worker2"}

NoWorker == "none"

(* request_data: a text json::parse rejects; a request whose item fits; a
   request with one item that fits and one that fits nowhere. *)
Requests ==
    { [well_formed |-> FALSE, items |-> <<>>, containers |-> <<>>],
      [well_formed |-> TRUE,
       items |-> << ItemData("A", U, U, U, 50, Some("Z1")) >>,
       containers |-> << ContainerData("C1", "Z1", 2 * U, U, 2 * U) >>],
      [well_formed |-> TRUE,
       items |-> << ItemData("A", U, U, U, 80, Some("Z1")),
                    ItemData("B", 3 * U, U, U, 50, NullOpt) >>,
       containers |-> << ContainerData("C1", "Z1", 2 * U, U, 2 * U) >>] }

(* Table placements, which the worker reads and never writes: S on the floor
   of C1 and T in a container no request names. *)
PlacementsTable ==
    [c \in {"C1", "C7"} |->
        IF c = "C1"
        THEN << PlacementInfo("S", "C1", Position(U, 0, 0, 2 * U, U, U), 10) >>
        ELSE << PlacementInfo("T", "C7", Position(0, 0, 0, U, U, U), 10) >>]

(* fetch_current_placements: the rows of the containers of the request, by
   container id. *)
fetch_current_placements(table, relevant_containers) ==
    [c \in DOMAIN table \cap
           {relevant_containers[i].containerId : i \in 1..Len(relevant_containers)}
       |-> table[c]]

JobRow(status, request_data, message) ==
    [status |-> status, request_data |-> request_data, error_message |-> message]

NoHistory == [claimed_by |-> {}, engine_success |-> NullOpt, threw |-> FALSE]

(* The rows the polling query can return under the mutation that it neither
   skips nor takes row locks: every PENDING row. *)
PollCandidates_IgnoreLocks(jobs, locks) ==
    {j \in DOMAIN jobs : jobs[j].status = "PENDING"}

(* WHERE status = 'PENDING' ... FOR UPDATE SKIP LOCKED: the PENDING rows no
   other transaction holds a lock on. *)
PollCandidates(jobs, locks) ==
    {j \in DOMAIN jobs : jobs[j].status = "PENDING" /\ locks[j] = NoWorker}

(* std::string final_status = placement_results.success ? "COMPLETED" : "FAILED"; *)
final_status(results) == IF results.success THEN "COMPLETED" ELSE "FAILED"

(* suggest_placements_cpp on the requests and the placements
   fetch_current_placements reads, as pairs of a request and an output: one
   output for each outcome of the sort. *)
EngineResults ==
    UNION {{<<request,
              RunSorted(sorted, request.containers,
                        fetch_current_placements(PlacementsTable, request.containers))>> :
               sorted \in SortOutcomes(request.items)} :
           request \in Requests}

WorkerInit ==
    /\ placement_jobs \in [Jobs -> {JobRow("PENDING", r, NullOpt) : r \in Requests}]
    /\ row_lock = [j \in Jobs |-> NoWorker]
    /\ job_results_placements = [j \in Jobs |-> <<>>]
    /\ job_results_rearrangements = [j \in Jobs |-> <<>>]
    /\ worker_pc = [w \in Workers |-> "poll"]
    /\ current_job_id = [w \in Workers |-> NoJob]
    /\ placement_results = [w \in Workers |-> NullOpt]
    /\ error_message = [w \in Workers |-> NullOpt]
    /\ job_history = [j \in Jobs |-> NoHistory]
    /\ engine_results = EngineResults
    /\ pc = "worker"
    /\ items_to_place_input = <<>>
    /\ containers_input = <<>>
    /\ current_db_placements = EmptyMap
    /\ idx = 1
    /\ sorted_incoming_items = <<>>
    /\ simulation_placements = EmptyMap
    /\ final_placements_map = EmptyMap
    /\ processed_item_ids = {}
    /\ items_requiring_placement_pass_2 = <<>>
    /\ items_requiring_placement_pass_3 = <<>>
    /\ output = EmptyOutput
    /\ spot_input = NullOpt
    /\ spot_result = NullOpt

engine_vars == <<inputs, pc, idx, sorted_incoming_items, simulation_placements,
                 final_placements_map, processed_item_ids,
                 items_requiring_placement_pass_2, items_requiring_placement_pass_3,
                 output, spot_vars, engine_results>>

tables == <<placement_jobs, job_results_placements, job_results_rearrangements>>

(* The row locks once the transaction of worker w holds the lock of row j:
   SELECT ... FOR UPDATE locks the row it returns and an UPDATE locks the row
   it writes, until the transaction ends. *)
LockRow(locks, j, w) == [locks EXCEPT ![j] = w]

(* The row locks once the transaction of worker w has ended, by commit or by
   rollback: every lock it holds is released. *)
ReleaseLocks(locks, w) ==
    [k \in DOMAIN locks |-> IF locks[k] = w THEN NoWorker ELSE locks[k]]

(* The polling query: the oldest PENDING row that is not locked is locked and
   read, or no row is found. *)
PollSelect(w) ==
    /\ worker_pc[w] = "poll"
    /\ LET found == PollCandidates(placement_jobs, row_lock)
       IN  IF found # {}
           THEN LET j == CHOOSE x \in found : \A y \in found : x <= y
                IN  /\ row_lock' = LockRow(row_lock, j, w)
                    /\ current_job_id' = [current_job_id EXCEPT ![w] = j]
                    /\ worker_pc' = [worker_pc EXCEPT ![w] = "found"]
           ELSE /\ worker_pc' = [worker_pc EXCEPT ![w] = "no_job"]
                /\ UNCHANGED <<row_lock, current_job_id>>
    /\ UNCHANGED <<engine_vars, tables, placement_results, error_message, job_history>>

(* UPDATE placement_jobs SET status = 'PROCESSING', inside the polling
   transaction, which holds the lock of the row since the polling query. *)
PollMarkProcessing(w) ==
    /\ worker_pc[w] = "found"
    /\ worker_pc' = [worker_pc EXCEPT ![w] = "marked"]
    /\ UNCHANGED <<engine_vars, tables, row_lock, current_job_id, placement_results,
                   error_message, job_history>>

(* txn.commit() of the polling transaction: the status update reaches the
   table and the row lock is released; with no job found the worker sleeps
   and polls again. *)
PollCommit(w) ==
    /\ worker_pc[w] \in {"marked", "no_job"}
    /\ IF worker_pc[w] = "marked"
       THEN LET j == current_job_id[w]
            IN  /\ placement_jobs' = [placement_jobs EXCEPT ![j].status = "PROCESSING"]
                /\ row_lock' = ReleaseLocks(row_lock, w)
                /\ job_history' = [job_history EXCEPT ![j].claimed_by = @ \cup {w}]
                /\ worker_pc' = [worker_pc EXCEPT ![w] = "process"]
       ELSE /\ worker_pc' = [worker_pc EXCEPT ![w] = "poll"]
            /\ UNCHANGED <<placement_jobs, row_lock, job_history>>
    /\ UNCHANGED <<engine_vars, job_results_placements, job_results_rearrangements,
                   current_job_id, placement_results, error_message>>

(* A statement of the polling transaction throws: the transaction is rolled
   back, which releases its row lock, and the handler logs the error and goes
   to sleep.  The local current_job_id keeps the id the query returned until
   the iteration ends. *)
PollThrow(w) ==
    /\ worker_pc[w] \in {"poll", "found", "marked", "no_job"}
    /\ row_lock' = ReleaseLocks(row_lock, w)
    /\ worker_pc' = [worker_pc EXCEPT ![w] = "poll_failed"]
    /\ UNCHANGED <<engine_vars, tables, current_job_id, placement_results,
                   error_message, job_history>>

(* sleep_for(10 s) returns and continue starts the next iteration, which
   declares current_job_id afresh. *)
PollRetry(w) ==
    /\ worker_pc[w] = "poll_failed"
    /\ current_job_id' = [current_job_id EXCEPT ![w] = NoJob]
    /\ worker_pc' = [worker_pc EXCEPT ![w] = "poll"]
    /\ UNCHANGED <<engine_vars, tables, row_lock, placement_results, error_message,
                   job_history>>

(* json::parse and the two get<>: a text that is not a request throws. *)
ParseRequest(w) ==
    /\ worker_pc[w] = "process"
    /\ LET j == current_job_id[w]
       IN  IF placement_jobs[j].request_data.well_formed
           THEN /\ worker_pc' = [worker_pc EXCEPT ![w] = "parsed"]
                /\ UNCHANGED <<error_message, job_history>>
           ELSE /\ worker_pc' = [worker_pc EXCEPT ![w] = "error"]
                /\ error_message' = [error_message EXCEPT ![w] = Some("JSON Parsing Error")]
                /\ job_history' = [job_history EXCEPT ![j].threw = TRUE]
    /\ UNCHANGED <<engine_vars, tables, row_lock, current_job_id, placement_results>>

(* fetch_current_placements and suggest_placements_cpp. *)
CallEngine(w) ==
    /\ worker_pc[w] = "parsed"
    /\ \E call \in engine_results :
          /\ call[1] = placement_jobs[current_job_id[w]].request_data
          /\ placement_results' = [placement_results EXCEPT ![w] = Some(call[2])]
          /\ job_history' = [job_history EXCEPT
                                ![current_job_id[w]].engine_success = Some(call[2].success)]
    /\ worker_pc' = [worker_pc EXCEPT ![w] = "computed"]
    /\ UNCHANGED <<engine_vars, tables, row_lock, current_job_id, error_message>>

(* store_placement_results, inside the processing transaction. *)
StoreResults(w) ==
    /\ worker_pc[w] = "computed"
    /\ worker_pc' = [worker_pc EXCEPT ![w] = "stored"]
    /\ UNCHANGED <<engine_vars, tables, row_lock, current_job_id, placement_results,
                   error_message, job_history>>

(* UPDATE placement_jobs SET status = final_status, inside the processing
   transaction: the statement waits while another transaction holds the lock
   of the row, and from it on the processing transaction holds that lock; the
   new status is not in the table before the commit. *)
UpdateFinalStatus(w) ==
    /\ worker_pc[w] = "stored"
    /\ row_lock[current_job_id[w]] \in {NoWorker, w}
    /\ row_lock' = LockRow(row_lock, current_job_id[w], w)
    /\ worker_pc' = [worker_pc EXCEPT ![w] = "updated"]
    /\ UNCHANGED <<engine_vars, tables, current_job_id, placement_results,
                   error_message, job_history>>

(* process_txn.commit(): the result rows and the final status reach the
   tables together, and the row lock is released. *)
ProcessCommit(w) ==
    /\ worker_pc[w] = "updated"
    /\ LET j == current_job_id[w]
           results == Value(placement_results[w])
       IN  /\ job_results_placements' =
                 [job_results_placements EXCEPT ![j] = results.placements]
           /\ job_results_rearrangements' =
                 [job_results_rearrangements EXCEPT ![j] = results.rearrangements]
           /\ placement_jobs' =
                 [placement_jobs EXCEPT ![j].status = final_status(results),
                                        ![j].error_message = results.error]
    /\ worker_pc' = [worker_pc EXCEPT ![w] = "poll"]
    /\ current_job_id' = [current_job_id EXCEPT ![w] = NoJob]
    /\ placement_results' = [placement_results EXCEPT ![w] = NullOpt]
    /\ row_lock' = ReleaseLocks(row_lock, w)
    /\ UNCHANGED <<engine_vars, error_message, job_history>>

(* A statement of the processing transaction, the engine or the commit
   throws: the transaction is rolled back, its writes are dropped and its row
   lock is released, and processing_error is set. *)
ProcessThrow(w) ==
    /\ worker_pc[w] \in {"process", "parsed", "computed", "stored", "updated"}
    /\ \E text \in {"Database SQL Error", "Generic Error"} :
          error_message' = [error_message EXCEPT ![w] = Some(text)]
    /\ job_history' = [job_history EXCEPT ![current_job_id[w]].threw = TRUE]
    /\ worker_pc' = [worker_pc EXCEPT ![w] = "error"]
    /\ row_lock' = ReleaseLocks(row_lock, w)
    /\ UNCHANGED <<engine_vars, tables, current_job_id, placement_results>>

(* UPDATE placement_jobs SET status = 'FAILED', inside fail_txn: the
   statement waits while another transaction holds the lock of the row, and
   from it on fail_txn holds that lock. *)
FailUpdate(w) ==
    /\ worker_pc[w] = "error"
    /\ row_lock[current_job_id[w]] \in {NoWorker, w}
    /\ row_lock' = LockRow(row_lock, current_job_id[w], w)
    /\ worker_pc' = [worker_pc EXCEPT ![w] = "fail_updated"]
    /\ UNCHANGED <<engine_vars, tables, current_job_id, placement_results,
                   error_message, job_history>>

(* fail_txn.commit(): the status and the message reach the table and the row
   lock is released. *)
FailCommit(w) ==
    /\ worker_pc[w] = "fail_updated"
    /\ placement_jobs' =
          [placement_jobs EXCEPT ![current_job_id[w]].status = "FAILED",
                                 ![current_job_id[w]].error_message = error_message[w]]
    /\ worker_pc' = [worker_pc EXCEPT ![w] = "poll"]
    /\ current_job_id' = [current_job_id EXCEPT ![w] = NoJob]
    /\ placement_results' = [placement_results EXCEPT ![w] = NullOpt]
    /\ error_message' = [error_message EXCEPT ![w] = NullOpt]
    /\ row_lock' = ReleaseLocks(row_lock, w)
    /\ UNCHANGED <<engine_vars, job_results_placements, job_results_rearrangements,
                   job_history>>

(* A statement of fail_txn throws: the transaction is rolled back and its row
   lock released, the exception is logged and the loop goes on with the next
   poll. *)
FailThrow(w) ==
    /\ worker_pc[w] \in {"error", "fail_updated"}
    /\ worker_pc' = [worker_pc EXCEPT ![w] = "poll"]
    /\ current_job_id' = [current_job_id EXCEPT ![w] = NoJob]
    /\ placement_results' = [placement_results EXCEPT ![w] = NullOpt]
    /\ error_message' = [error_message EXCEPT ![w] = NullOpt]
    /\ row_lock' = ReleaseLocks(row_lock, w)
    /\ UNCHANGED <<engine_vars, tables, job_history>>

(* The steps of a worker in which no statement throws. *)
WorkerRuns(w) ==
    \/ PollSelect(w)
    \/ PollMarkProcessing(w)
    \/ PollCommit(w)
    \/ PollRetry(w)
    \/ ParseRequest(w)
    \/ CallEngine(w)
    \/ StoreResults(w)
    \/ UpdateFinalStatus(w)
    \/ ProcessCommit(w)
    \/ FailUpdate(w)
    \/ FailCommit(w)

(* The steps in which a statement throws. *)
WorkerThrows(w) == PollThrow(w) \/ ProcessThrow(w) \/ FailThrow(w)

WorkerNext == \E w \in Workers : WorkerRuns(w) \/ WorkerThrows(w)

WorkerSpec == WorkerInit /\ [][WorkerNext]_vars

(* Every worker process keeps running: a step of its loop that can be taken
   without an exception is taken in the end.  Exceptions may or may not come. *)
WorkerFairSpec == WorkerSpec /\ \A w \in Workers : WF_vars(WorkerRuns(w))

----------------------------------------------------------------------------
(* Predicates over the inputs and the output, used to state the properties. *)

Done == pc = "done"

containers_map == containers_map_of(containers_input)

(* The seeded placements as (container key, index) pairs. *)
SeedRefs ==
    {<<c, i>> : c \in DOMAIN current_db_placements, i \in 1..2} \cap
    {r \in (DOMAIN current_db_placements) \X (1..2) :
        r[2] <= Len(current_db_placements[r[1]])}

SeedAt(r) == current_db_placements[r[1]][r[2]]

SeededIds == {SeedAt(r).itemId : r \in SeedRefs}

IncomingIds == {items_to_place_input[i].itemId : i \in 1..Len(items_to_place_input)}

(* in_bounds(pos, container) of the specification: within the tolerance. *)
in_bounds(pos, container) ==
    /\ DLe(DSub(Zero, COORD_TOLERANCE), pos.startCoordinates.width)
    /\ DLe(DSub(Zero, COORD_TOLERANCE), pos.startCoordinates.depth)
    /\ DLe(DSub(Zero, COORD_TOLERANCE), pos.startCoordinates.height)
    /\ DLe(pos.endCoordinates.width, DAdd(container.width, COORD_TOLERANCE))
    /\ DLe(pos.endCoordinates.depth, DAdd(container.depth, COORD_TOLERANCE))
    /\ DLe(pos.endCoordinates.height, DAdd(container.height, COORD_TOLERANCE))

SeedContainersKnown == DOMAIN current_db_placements \subseteq DOMAIN containers_map

SeedsInBounds ==
    /\ SeedContainersKnown
    /\ \A r \in SeedRefs : in_bounds(SeedAt(r).position, containers_map[r[1]])

SeedsNonOverlapping ==
    \A r, q \in SeedRefs :
        (r # q /\ r[1] = q[1]) => ~boxes_overlap(SeedAt(r).position, SeedAt(q).position)

SeedIdsUnique == \A r, q \in SeedRefs : r # q => SeedAt(r).itemId # SeedAt(q).itemId

PositiveVolume(pos) ==
    /\ DLt(pos.startCoordinates.width, pos.endCoordinates.width)
    /\ DLt(pos.startCoordinates.depth, pos.endCoordinates.depth)
    /\ DLt(pos.startCoordinates.height, pos.endCoordinates.height)

PositiveDimensions ==
    /\ \A i \in 1..Len(items_to_place_input) :
          /\ DLt(Zero, items_to_place_input[i].width)
          /\ DLt(Zero, items_to_place_input[i].depth)
          /\ DLt(Zero, items_to_place_input[i].height)
    /\ \A i \in 1..Len(containers_input) :
          /\ DLt(Zero, containers_input[i].width)
          /\ DLt(Zero, containers_input[i].depth)
          /\ DLt(Zero, containers_input[i].height)
    /\ \A r \in SeedRefs : PositiveVolume(SeedAt(r).position)

UniqueIds ==
    /\ SeedIdsUnique
    /\ \A i, j \in 1..Len(items_to_place_input) :
          i # j => items_to_place_input[i].itemId # items_to_place_input[j].itemId
    /\ \A i, j \in 1..Len(containers_input) :
          i # j => containers_input[i].containerId # containers_input[j].containerId

(* The invariants on inputs of the engine's interface. *)
ValidInput ==
    /\ UniqueIds
    /\ SeedsInBounds
    /\ SeedsNonOverlapping
    /\ PositiveDimensions

(* Every seeded placement rests on the floor or on another seeded placement. *)
SeedsStable ==
    \A r \in SeedRefs :
        \/ DLt(Abs(SeedAt(r).position.startCoordinates.height), COORD_TOLERANCE)
        \/ \E q \in SeedRefs :
              q # r /\ q[1] = r[1] /\ Supports(SeedAt(q), SeedAt(r).position)

Placed == 1..Len(output.placements)

PlacedIds == {output.placements[k].itemId : k \in Placed}

FailedIds == {output.failedItemIds[k] : k \in 1..Len(output.failedItemIds)}

(* The entry is the seeded placement of its id, unchanged. *)
IsSeedEntry(e) ==
    \E r \in SeedRefs :
        e = PlacementResult(SeedAt(r).itemId, r[1], SeedAt(r).position)

(* The k-th final placement rests on the floor or on another final placement
   of its container. *)
StableInOutput(k) ==
    \/ DLt(Abs(output.placements[k].position.startCoordinates.height), COORD_TOLERANCE)
    \/ \E j \in Placed :
          /\ j # k
          /\ output.placements[j].containerId = output.placements[k].containerId
          /\ Supports(output.placements[j], output.placements[k].position)

----------------------------------------------------------------------------
(* C1: when the seeded placements are in-bounds and pair-wise
   non-overlapping, no two distinct final placements of the same container
   overlap under boxes_overlap. *)
C1_NoOverlap ==
    (Done /\ SeedsInBounds /\ SeedsNonOverlapping) =>
        \A j, k \in Placed :
            (j # k /\ output.placements[j].containerId = output.placements[k].containerId)
                => ~boxes_overlap(output.placements[j].position,
                                  output.placements[k].position)

(* A seeded placement and two newly placed items end in the same container. *)
C1_Witness ==
    /\ Done /\ SeedsInBounds /\ SeedsNonOverlapping
    /\ \E i, j, k \in Placed :
          /\ i # j /\ j # k /\ i # k
          /\ output.placements[i].containerId = output.placements[j].containerId
          /\ output.placements[j].containerId = output.placements[k].containerId
          /\ IsSeedEntry(output.placements[i])
          /\ ~IsSeedEntry(output.placements[j])
          /\ ~IsSeedEntry(output.placements[k])

(* C2: when the seeded placements are in-bounds, every final placement lies
   in its container within the tolerance on every axis. *)
C2_InBounds ==
    (Done /\ SeedsInBounds) =>
        \A k \in Placed :
            /\ output.placements[k].containerId \in DOMAIN containers_map
            /\ in_bounds(output.placements[k].position,
                         containers_map[output.placements[k].containerId])

(* An item longer than its container by the tolerance was placed: its end is
   beyond the container's width and within the tolerance of it. *)
C2_Witness ==
    /\ Done /\ SeedsInBounds
    /\ \E k \in Placed :
          /\ ~IsSeedEntry(output.placements[k])
          /\ DLt(containers_map[output.placements[k].containerId].width,
                 output.placements[k].position.endCoordinates.width)

(* C3: under the input invariants every final placement, seeded or new, is
   stable against the other final placements of its container: it starts on
   the floor or on the top of another final placement. *)
C3_StableAsStated ==
    (Done /\ ValidInput) => \A k \in Placed : StableInOutput(k)

(* The input invariants hold and every seeded placement is stable, and the
   output holds a new placement above the floor with no final placement under
   it: the item was put on the seeded placement of its own id, which the
   output no longer holds. *)
C3_Witness ==
    /\ Done /\ ValidInput /\ SeedsStable
    /\ \E k \in Placed :
          /\ ~IsSeedEntry(output.placements[k])
          /\ output.placements[k].itemId \in SeededIds
          /\ DLt(Zero, output.placements[k].position.startCoordinates.height)
          /\ ~StableInOutput(k)

(* C4: every incoming item id is in exactly one of output.placements and
   output.failedItemIds. *)
C4_PlacedXorFailed ==
    Done => \A id \in IncomingIds : (id \in PlacedIds) # (id \in FailedIds)

(* One incoming item was placed and another failed; the failed one has the
   id of a seeded placement. *)
C4_Witness ==
    /\ Done
    /\ \E a, b \in IncomingIds :
          a \in PlacedIds /\ b \in FailedIds /\ b \in SeededIds

(* C5: success is true exactly when failedItemIds is empty, and a successful
   output carries no error. *)
C5_SuccessConsistent ==
    Done => /\ output.success = (output.failedItemIds = <<>>)
            /\ output.success => output.error = NullOpt

(* A call in which an item failed. *)
C5_Witness == Done /\ output.failedItemIds # <<>> /\ PlacedIds # {}

(* C6: when the seeded item ids are unique, every item id is in at most one
   placement of the simulation state, in every state of the call. *)
C6_UniqueInSimulation ==
    SeedIdsUnique =>
        \A c1, c2 \in DOMAIN simulation_placements :
            \A i \in 1..Len(simulation_placements[c1]) :
                \A j \in 1..Len(simulation_placements[c2]) :
                    simulation_placements[c1][i].itemId = simulation_placements[c2][j].itemId
                        => (c1 = c2 /\ i = j)

(* C7: with no incoming item and unique seeded ids, the call succeeds with no
   rearrangement and no failed id, and output.placements is the seeded
   placements, each once. *)
C7_EmptyItemsIdentity ==
    (Done /\ items_to_place_input = <<>> /\ SeedIdsUnique) =>
        /\ output.success
        /\ output.rearrangements = <<>>
        /\ output.failedItemIds = <<>>
        /\ {output.placements[k] : k \in Placed}
              = {PlacementResult(SeedAt(r).itemId, r[1], SeedAt(r).position) : r \in SeedRefs}
        /\ Len(output.placements) = Cardinality(SeedRefs)

(* A call with no incoming item on two seeded placements. *)
C7_Witness ==
    /\ Done /\ items_to_place_input = <<>> /\ SeedIdsUnique
    /\ Cardinality(SeedRefs) = 2

(* C8: the output is a function of the inputs: whatever order the sort
   leaves items of equal priority in, the call returns this output. *)
C8_Deterministic ==
    Done => \A s \in SortOutcomes(items_to_place_input) :
                RunSorted(s, containers_input, current_db_placements) = output

SamePriority(items) ==
    \A i, j \in 1..Len(items) : items[i].priority = items[j].priority

(* The ids of the incoming items an output places. *)
PlacedIncoming(out) ==
    {out.placements[k].itemId : k \in 1..Len(out.placements)} \cap IncomingIds

(* The outputs the call can return for the permutations of the incoming list. *)
PermutedOutputs ==
    {RunSorted(s, containers_input, current_db_placements) :
        s \in UNION {SortOutcomes(Permuted(items_to_place_input, p)) :
                        p \in Perms(Len(items_to_place_input))}}

(* C9: on a valid input whose incoming items have one priority, every
   permutation of the list places the same set of item ids and fails the same
   set. *)
C9_PermutationSameSet ==
    (Done /\ ValidInput /\ SamePriority(items_to_place_input)) =>
        \A out \in PermutedOutputs :
            /\ PlacedIncoming(out) = PlacedIncoming(output)
            /\ {out.failedItemIds[k] : k \in 1..Len(out.failedItemIds)} = FailedIds

(* The input breaks an invariant C10 lists: a non-positive dimension, a
   seeded placement in an unknown container, out of bounds or overlapping. *)
InvalidInput ==
    \/ ~PositiveDimensions
    \/ ~SeedContainersKnown
    \/ ~SeedsInBounds
    \/ ~SeedsNonOverlapping

(* C10: an invalid input is rejected: success = false, an error, no
   placement, no rearrangement, and every incoming id in failedItemIds. *)
C10_RejectsInvalidInput ==
    (Done /\ InvalidInput) =>
        /\ output.success = FALSE
        /\ HasValue(output.error)
        /\ output.placements = <<>>
        /\ output.rearrangements = <<>>
        /\ FailedIds = IncomingIds

----------------------------------------------------------------------------
(* Predicates over one step of the call. *)

(* The placements the simulation state holds for a container: a key that
   operator[] created holds none, like a key that is missing. *)
SimAt(sim, container_id) == IF container_id \in DOMAIN sim THEN sim[container_id] ELSE <<>>

(* What the spot finder returns for the item in the k-th container of
   containers_input, on the simulation state of this moment. *)
SpotIn(item_req, k) ==
    find_spot_in_container(
        item_req, containers_map[containers_input[k].containerId],
        SimAt(simulation_placements, containers_input[k].containerId),
        item_req.priority >= HIGH_PRIORITY_THRESHOLD)

(* The step leaves the placements of every container as they are. *)
SimUntouched ==
    \A c \in DOMAIN simulation_placements \cup DOMAIN simulation_placements' :
        SimAt(simulation_placements', c) = SimAt(simulation_placements, c)

(* The step commits the item at found_pos in container_id and changes no
   other placement. *)
CommittedTo(item_req, container_id, found_pos) ==
    /\ SimAt(simulation_placements', container_id)
          = Append(SimAt(simulation_placements, container_id),
                   PlacementInfo(item_req.itemId, container_id, found_pos,
                                 item_req.priority))
    /\ \A c \in (DOMAIN simulation_placements \cup DOMAIN simulation_placements')
                    \ {container_id} :
          SimAt(simulation_placements', c) = SimAt(simulation_placements, c)
    /\ item_req.itemId \in DOMAIN final_placements_map'
    /\ final_placements_map'[item_req.itemId]
          = PlacementResult(item_req.itemId, container_id, found_pos)
    /\ processed_item_ids' = processed_item_ids \cup {item_req.itemId}
    /\ output'.failedItemIds = output.failedItemIds

(* The step is the Phase 3 iteration of an item that is not yet processed. *)
AttemptsInPhase3 ==
    /\ pc = "phase3"
    /\ idx <= Len(items_requiring_placement_pass_3)
    /\ items_requiring_placement_pass_3[idx].itemId \notin processed_item_ids

(* C11: a Phase 3 item with no spot in any container is appended to
   failedItemIds and the placements of the simulation and the final map stay
   as they are; the loop goes on, and an item after a failed one that has a
   spot in some container is committed; the failed ids are left out of
   output.placements. *)
C11_FailureDoesNotAbort ==
    [][/\ AttemptsInPhase3 =>
            LET item_req == items_requiring_placement_pass_3[idx]
            IN  IF \E k \in 1..Len(containers_input) : HasValue(SpotIn(item_req, k))
                THEN \E k \in 1..Len(containers_input) :
                        /\ HasValue(SpotIn(item_req, k))
                        /\ CommittedTo(item_req, containers_input[k].containerId,
                                       Value(SpotIn(item_req, k)).position)
                ELSE /\ output'.failedItemIds
                          = Append(output.failedItemIds, item_req.itemId)
                     /\ SimUntouched
                     /\ final_placements_map' = final_placements_map
                     /\ pc' = "phase3" /\ idx' = idx + 1
       /\ (pc = "phase3" /\ pc' = "done") =>
            /\ output'.failedItemIds = output.failedItemIds
            /\ \A k \in 1..Len(output'.placements) :
                  \A j \in 1..Len(output.failedItemIds) :
                      output'.placements[k].itemId # output.failedItemIds[j]
      ]_vars

(* An item failed in Phase 3 and an item after it in the backlog was placed. *)
C11_Witness ==
    /\ Done
    /\ \E i, j \in 1..Len(items_requiring_placement_pass_3) :
          /\ i < j
          /\ items_requiring_placement_pass_3[i].itemId \in FailedIds
          /\ items_requiring_placement_pass_3[j].itemId \in PlacedIds
          /\ items_requiring_placement_pass_3[j].itemId \notin SeededIds
          /\ items_requiring_placement_pass_3[j].itemId
                # items_requiring_placement_pass_3[i].itemId

(* The item a placement holds, by the extent of its position. *)
ExtentItem(p) ==
    [itemId |-> p.itemId,
     width  |-> DSub(p.position.endCoordinates.width, p.position.startCoordinates.width),
     depth  |-> DSub(p.position.endCoordinates.depth, p.position.startCoordinates.depth),
     height |-> DSub(p.position.endCoordinates.height, p.position.startCoordinates.height),
     priority |-> p.priority, preferredZone |-> NullOpt]

(* The k-th container is in the item's preferred zone, no container of that
   zone has a spot for the item, the k-th has one once its placements of lower
   priority are taken out, and each of these has a spot in another container. *)
Evictable(item_req, k) ==
    LET c == containers_input[k]
        placed == SimAt(current_db_placements, c.containerId)
        Keep(p) == p.priority >= item_req.priority
    IN  /\ HasValue(item_req.preferredZone)
        /\ c.zone = Value(item_req.preferredZone)
        /\ \A j \in 1..Len(containers_input) :
              containers_input[j].zone = c.zone =>
                  ~HasValue(find_spot_in_container(
                                item_req, containers_input[j],
                                SimAt(current_db_placements,
                                      containers_input[j].containerId), TRUE))
        /\ HasValue(find_spot_in_container(item_req, c, SelectSeq(placed, Keep), TRUE))
        /\ \A i \in 1..Len(placed) :
              ~Keep(placed[i]) =>
                  \E j \in 1..Len(containers_input) :
                      /\ j # k
                      /\ HasValue(find_spot_in_container(
                                      ExtentItem(placed[i]), containers_input[j],
                                      SimAt(current_db_placements,
                                            containers_input[j].containerId),
                                      placed[i].priority >= HIGH_PRIORITY_THRESHOLD))

(* C12: a call with one high-priority item for which a preferred container is
   evictable ends with the item in that container and with the moves as
   rearrangement steps numbered from 1, action "move"; the call with L
   (4, 4, 1) in C1, C2 empty and H (4, 4, 2) gives one step moving L from C1 to
   C2 and H at (0,0,0)-(4,4,2) in C1. *)
C12_RearrangesForHighPriority ==
    Done =>
        /\ (/\ Len(items_to_place_input) = 1
            /\ items_to_place_input[1].priority >= HIGH_PRIORITY_THRESHOLD
            /\ \E k \in 1..Len(containers_input) :
                  Evictable(items_to_place_input[1], k))
           => /\ \E k \in 1..Len(containers_input), n \in Placed :
                    /\ Evictable(items_to_place_input[1], k)
                    /\ output.placements[n].itemId = items_to_place_input[1].itemId
                    /\ output.placements[n].containerId = containers_input[k].containerId
              /\ output.rearrangements # <<>>
              /\ \A n \in 1..Len(output.rearrangements) :
                    /\ output.rearrangements[n].step = n
                    /\ output.rearrangements[n].action = "move"
        /\ (items_to_place_input
              = << ItemData("H", 4 * Metre, 4 * Metre, 2 * Metre, 90, Some("Z1")) >>)
           => /\ Len(output.rearrangements) = 1
              /\ \E n \in Placed :
                    output.placements[n]
                      = PlacementResult("H", "C1",
                            Position(0, 0, 0, 4 * Metre, 4 * Metre, 2 * Metre))

(* The step is the Phase 1 iteration of an item that is not yet processed. *)
AttemptsInPhase1 ==
    /\ pc = "phase1"
    /\ idx <= Len(sorted_incoming_items)
    /\ sorted_incoming_items[idx].itemId \notin processed_item_ids

(* The step commits an item to the simulation. *)
CommitsItem ==
    /\ AttemptsInPhase1 \/ AttemptsInPhase3
    /\ processed_item_ids' # processed_item_ids
    /\ output'.failedItemIds = output.failedItemIds

(* The item the running loop is at. *)
CurrentItem ==
    IF pc = "phase1" THEN sorted_incoming_items[idx]
    ELSE items_requiring_placement_pass_3[idx]

(* C13 as stated: on a valid input, when an item is committed every incoming
   item of higher priority has been committed or declared failed. *)
C13_PriorityOrderAcrossPhases ==
    [][(ValidInput /\ CommitsItem) =>
          \A i \in 1..Len(items_to_place_input) :
              items_to_place_input[i].priority > CurrentItem.priority
                  => items_to_place_input[i].itemId \in processed_item_ids
      ]_vars

(* C13 amended: when an item is committed in Phase 1, every incoming item of
   higher priority has been committed or sent to the backlog by Phase 1; when
   an item is committed in Phase 3, every incoming item of higher priority has
   been committed or declared failed. *)
C13_PriorityOrderWithinPhase ==
    [][CommitsItem =>
          \A i \in 1..Len(items_to_place_input) :
              items_to_place_input[i].priority > CurrentItem.priority
                  => \/ items_to_place_input[i].itemId \in processed_item_ids
                     \/ /\ pc = "phase1"
                        /\ \E j \in 1..Len(items_requiring_placement_pass_2) :
                              items_requiring_placement_pass_2[j] = items_to_place_input[i]
      ]_vars

(* Phase 1 is over on a valid input: an incoming item it committed has a lower
   priority than an item it sent to the backlog. *)
C13_Witness ==
    /\ ValidInput
    /\ pc = "phase3" /\ idx = 1
    /\ \E j \in 1..Len(items_requiring_placement_pass_3) :
          \E c \in DOMAIN simulation_placements :
              \E i \in 1..Len(simulation_placements[c]) :
                  /\ simulation_placements[c][i].itemId \in IncomingIds
                  /\ simulation_placements[c][i].priority
                        < items_requiring_placement_pass_3[j].priority

(* C14: after the sort, sorted_incoming_items is the input ordered by
   priority descending with items of equal priority in their input order. *)
C14_SortKeepsInputOrder ==
    pc \in {"phase1", "phase3", "done"} =>
        sorted_incoming_items = StableSorted(items_to_place_input)

----------------------------------------------------------------------------
(* Predicates over a direct call of find_spot_in_container. *)

SpotDone == pc = "find_spot_done"

(* The arguments of the call and the std::optional it returned. *)
SpotArgs == Value(spot_input)

SpotReturned == Value(spot_result)

(* a = b under the tolerance: |a - b| < COORD_TOLERANCE *)
EqualWithinTolerance(a, b) == DLt(Abs(DSub(a, b)), COORD_TOLERANCE)

(* The position has the extent of the orientation: its end is its start plus
   the orientation, and end - start is the orientation under the tolerance. *)
HasExtent(pos, ori) ==
    /\ pos.endCoordinates = Coordinates(DAdd(pos.startCoordinates.width, ori[1]),
                                        DAdd(pos.startCoordinates.depth, ori[2]),
                                        DAdd(pos.startCoordinates.height, ori[3]))
    /\ EqualWithinTolerance(
           DSub(pos.endCoordinates.width, pos.startCoordinates.width), ori[1])
    /\ EqualWithinTolerance(
           DSub(pos.endCoordinates.depth, pos.startCoordinates.depth), ori[2])
    /\ EqualWithinTolerance(
           DSub(pos.endCoordinates.height, pos.startCoordinates.height), ori[3])

(* The six axis permutations of the item's (w, d, h). *)
AxisPermutations(item_req) ==
    LET dims == <<item_req.width, item_req.depth, item_req.height>>
    IN  {<<dims[q[1]], dims[q[2]], dims[q[3]]>> : q \in Perms(3)}

(* C15: what find_spot_in_container returns is not-found, or a position in
   the container that overlaps no placed item and is stable against the placed
   items, with the extent of the returned orientation, which is an axis
   permutation of the item's dimensions. *)
C15_SpotContract ==
    (SpotDone /\ HasValue(SpotReturned)) =>
        LET r == Value(SpotReturned)
            placed == SpotArgs.current_placements_in_container
        IN  /\ in_bounds(r.position, SpotArgs.container)
            /\ \A i \in 1..Len(placed) : ~boxes_overlap(r.position, placed[i].position)
            /\ is_stable(r.position, SpotArgs.container, placed)
            /\ HasExtent(r.position, r.orientation)
            /\ r.orientation \in AxisPermutations(SpotArgs.item_req)

(* A spot above the floor, in another orientation than the item's first, in a
   container with two placed items. *)
C15_Witness ==
    /\ SpotDone /\ HasValue(SpotReturned)
    /\ Len(SpotArgs.current_placements_in_container) = 2
    /\ DLt(Zero, Value(SpotReturned).position.startCoordinates.height)
    /\ Value(SpotReturned).orientation # orientations(SpotArgs.item_req)[1]

(* The candidates of the search grid as (orientation, base height, depth
   step, width step) indices, in the nesting of the loops. *)
GridOf(a) ==
    (1..6)
    \X (1..Len(possible_base_heights(a.current_placements_in_container)))
    \X (0..(num_d_steps(a.container) - 1))
    \X (0..(num_w_steps(a.container) - 1))

(* The candidate position of a grid index. *)
GridCandidate(a, t) ==
    LET ori == orientations(a.item_req)[t[1]]
    IN  candidate_pos_at(
            start_w_at(a.container, width_increment(a.container), ori[1], t[4]),
            start_d_at(a.container, depth_increment(a.container), ori[2], t[3],
                       a.is_high_priority),
            possible_base_heights(a.current_placements_in_container)[t[2]],
            ori)

(* The candidate is in-bounds, overlaps no placed item and is stable. *)
GridValid(a, t) ==
    /\ in_bounds(GridCandidate(a, t), a.container)
    /\ \A i \in 1..Len(a.current_placements_in_container) :
          ~boxes_overlap(GridCandidate(a, t),
                         a.current_placements_in_container[i].position)
    /\ is_stable(GridCandidate(a, t), a.container, a.current_placements_in_container)

(* t comes before u in the iteration order: orientation, then base height,
   then depth step, then width step. *)
LexBefore(t, u) ==
    \/ t[1] < u[1]
    \/ t[1] = u[1] /\ t[2] < u[2]
    \/ t[1] = u[1] /\ t[2] = u[2] /\ t[3] < u[3]
    \/ t[1] = u[1] /\ t[2] = u[2] /\ t[3] = u[3] /\ t[4] < u[4]

(* The steps of the grid go the way the iteration order says: base heights
   ascending, depth ascending for high priority and descending otherwise,
   width ascending. *)
GridDirections(a) ==
    LET heights == possible_base_heights(a.current_placements_in_container)
        width_inc == width_increment(a.container)
        depth_inc == depth_increment(a.container)
    IN  /\ \A i \in 1..(Len(heights) - 1) : DLt(heights[i], heights[i + 1])
        /\ \A o \in 1..6 :
              LET ori == orientations(a.item_req)[o]
              IN  /\ \A d \in 0..(num_d_steps(a.container) - 2) :
                        IF a.is_high_priority
                        THEN DLe(start_d_at(a.container, depth_inc, ori[2], d, TRUE),
                                 start_d_at(a.container, depth_inc, ori[2], d + 1, TRUE))
                        ELSE DLe(start_d_at(a.container, depth_inc, ori[2], d + 1, FALSE),
                                 start_d_at(a.container, depth_inc, ori[2], d, FALSE))
                  /\ \A w \in 0..(num_w_steps(a.container) - 2) :
                        DLe(start_w_at(a.container, width_inc, ori[1], w),
                            start_w_at(a.container, width_inc, ori[1], w + 1))

(* C16: find_spot_in_container returns the first valid candidate of the grid
   in the order orientation, base height (ascending), depth (ascending for
   high priority, descending otherwise), width (ascending), and not-found
   exactly when no candidate of the grid is valid. *)
C16_FirstValidCandidate ==
    SpotDone =>
        LET valid == {t \in GridOf(SpotArgs) : GridValid(SpotArgs, t)}
        IN  /\ GridDirections(SpotArgs)
            /\ IF valid = {}
               THEN SpotReturned = NullOpt
               ELSE \E t \in valid :
                       /\ \A u \in valid : u = t \/ LexBefore(t, u)
                       /\ SpotReturned
                            = Some([position |-> GridCandidate(SpotArgs, t),
                                    orientation |-> orientations(SpotArgs.item_req)[t[1]]])

(* A low-priority call that returned a spot above the floor and off the left
   wall: candidates before it in the order were not valid. *)
C16_Witness ==
    /\ SpotDone /\ HasValue(SpotReturned)
    /\ ~SpotArgs.is_high_priority
    /\ DLt(Zero, Value(SpotReturned).position.startCoordinates.height)
    /\ DLt(Zero, Value(SpotReturned).position.startCoordinates.width)

(* The least element of a non-empty set of indices. *)
First(S) == CHOOSE k \in S : \A j \in S : k <= j

(* An item that has been committed keeps its entry of the final map. *)
CommittedStays ==
    \A id \in (processed_item_ids \cap DOMAIN final_placements_map) \ FailedIds :
        /\ id \in DOMAIN final_placements_map'
        /\ final_placements_map'[id] = final_placements_map[id]
        /\ (pc' = "done") =>
              \E n \in 1..Len(output'.placements) :
                  output'.placements[n] = final_placements_map[id]

(* C17: the Phase 1 iteration of an item commits it to the first container,
   in input order, of its preferred zone in which the spot finder finds a spot
   on the simulation state of that moment, and that stays its final placement;
   an item with no preferred zone or no such container is not committed and is
   appended to the backlog. *)
C17_Phase1FirstPreferredContainer ==
    [][/\ AttemptsInPhase1 =>
            LET item_req == sorted_incoming_items[idx]
                preferred ==
                    {k \in 1..Len(containers_input) :
                        /\ HasValue(item_req.preferredZone)
                        /\ containers_map[containers_input[k].containerId].zone
                              = Value(item_req.preferredZone)
                        /\ HasValue(SpotIn(item_req, k))}
            IN  IF preferred # {}
                THEN /\ CommittedTo(item_req,
                                    containers_input[First(preferred)].containerId,
                                    Value(SpotIn(item_req, First(preferred))).position)
                     /\ items_requiring_placement_pass_2'
                          = items_requiring_placement_pass_2
                ELSE /\ SimUntouched
                     /\ final_placements_map' = final_placements_map
                     /\ processed_item_ids' = processed_item_ids
                     /\ items_requiring_placement_pass_2'
                          = Append(items_requiring_placement_pass_2, item_req)
       /\ CommittedStays
      ]_vars

(* Phase 1 placed an item in the second container of its preferred zone, the
   first one having no spot for it. *)
C17_Witness ==
    /\ Done
    /\ Len(containers_input) = 2
    /\ containers_input[1].zone = containers_input[2].zone
    /\ \E i \in 1..Len(items_to_place_input), n \in Placed :
          /\ items_to_place_input[i].preferredZone = Some(containers_input[2].zone)
          /\ output.placements[n].itemId = items_to_place_input[i].itemId
          /\ output.placements[n].containerId = containers_input[2].containerId
          /\ ~IsSeedEntry(output.placements[n])
          /\ \A j \in 1..Len(items_requiring_placement_pass_3) :
                items_requiring_placement_pass_3[j].itemId
                  # items_to_place_input[i].itemId

(* C18: the Phase 3 iteration of an item commits it to the first container in
   input order, whatever its zone, in which the spot finder finds a spot, and
   success stays as it is; the item is marked failed only when no container
   has a spot.  The call with C1 and C2 (5, 5, 5) and A (1, 1, 1) preferring
   zone Z3 returns A in C1 at start (0, 4, 0), success = true. *)
C18_Phase3FirstContainer ==
    [][/\ AttemptsInPhase3 =>
            LET item_req == items_requiring_placement_pass_3[idx]
                with_spot == {k \in 1..Len(containers_input) :
                                HasValue(SpotIn(item_req, k))}
            IN  IF with_spot # {}
                THEN /\ CommittedTo(item_req,
                                    containers_input[First(with_spot)].containerId,
                                    Value(SpotIn(item_req, First(with_spot))).position)
                     /\ output'.success = output.success
                ELSE /\ output'.failedItemIds
                          = Append(output.failedItemIds, item_req.itemId)
                     /\ output'.success = FALSE
                     /\ SimUntouched
       /\ (/\ pc' = "done"
           /\ items_to_place_input
                = << ItemData("A", Metre, Metre, Metre, 50, Some("Z3")) >>
           /\ containers_input = << Cube("C1", "Z1", 5), Cube("C2", "Z2", 5) >>)
          => output' = [success |-> TRUE, error |-> NullOpt,
                        placements |->
                            << PlacementResult("A", "C1",
                                   Position(0, 4 * Metre, 0,
                                            Metre, 5 * Metre, Metre)) >>,
                        rearrangements |-> <<>>, failedItemIds |-> <<>>]
      ]_vars

(* An item whose preferred zone is the zone of no container was placed in the
   second container, the first having no room, and the call succeeded. *)
C18_Witness ==
    /\ Done /\ output.success
    /\ Len(containers_input) = 2
    /\ \E i \in 1..Len(items_to_place_input), n \in Placed :
          /\ HasValue(items_to_place_input[i].preferredZone)
          /\ \A k \in 1..Len(containers_input) :
                containers_input[k].zone # Value(items_to_place_input[i].preferredZone)
          /\ output.placements[n].itemId = items_to_place_input[i].itemId
          /\ output.placements[n].containerId = containers_input[2].containerId
          /\ ~IsSeedEntry(output.placements[n])

(* The call has one incoming item, which was placed in the container of the
   n-th output placement; that container held nothing and the item's first
   orientation fits in it. *)
AloneInEmptyContainer(n) ==
    /\ Len(items_to_place_input) = 1
    /\ output.placements[n].itemId = items_to_place_input[1].itemId
    /\ ~IsSeedEntry(output.placements[n])
    /\ SimAt(current_db_placements, output.placements[n].containerId) = <<>>
    /\ output.placements[n].containerId \in DOMAIN containers_map
    /\ LET c == containers_map[output.placements[n].containerId]
       IN  /\ DLe(items_to_place_input[1].width, DAdd(c.width, COORD_TOLERANCE))
           /\ DLe(items_to_place_input[1].depth, DAdd(c.depth, COORD_TOLERANCE))
           /\ DLe(items_to_place_input[1].height, DAdd(c.height, COORD_TOLERANCE))

(* The start an output has for the call's one item, and NullOpt when it has
   no placement. *)
StartOfOnlyPlacement ==
    IF Len(output.placements) = 1
    THEN Some(output.placements[1].position.startCoordinates)
    ELSE NullOpt

(* The item (2, 3, 1) of priority p preferring Z1, the incoming list of the
   calls into the empty (10, 10, 10). *)
FloorFitItems(p) == << ItemData("A", 2 * Metre, 3 * Metre, Metre, p, Some("Z1")) >>

(* The calls with (2, 3, 1) into the empty (10, 10, 10): start.d is 7 below
   priority 75 and the start is (0, 0, 0) from 75 on. *)
FloorFitScenarios ==
    /\ \A p \in {50, 74} :
          items_to_place_input = FloorFitItems(p)
              => StartOfOnlyPlacement
                   = Some(Coordinates(Zero, FromMicro(7 * Metre), Zero))
    /\ \A p \in {75, 80} :
          items_to_place_input = FloorFitItems(p)
              => StartOfOnlyPlacement = Some(Coordinates(Zero, Zero, Zero))

(* C19 as stated: an item placed into an empty container in which its first
   orientation fits starts at width 0 and height 0, at depth 0 when its
   priority is 75 or more and at min(container depth - depth step, container
   depth - item depth) otherwise. *)
C19_DepthAsStated ==
    Done =>
        /\ \A n \in Placed :
              AloneInEmptyContainer(n) =>
                  LET c == containers_map[output.placements[n].containerId]
                      item_req == items_to_place_input[1]
                      start == output.placements[n].position.startCoordinates
                  IN  /\ start.width = Zero
                      /\ start.height = Zero
                      /\ start.depth
                            = IF item_req.priority >= 75 THEN Zero
                              ELSE Min(DSub(c.depth, depth_increment(c)),
                                       DSub(c.depth, item_req.depth))
        /\ FloorFitScenarios

(* C19 amended: the same, with the depth of a low-priority item clamped at
   the front wall: max(0, min(container depth - depth step, container depth -
   item depth)). *)
C19_DepthClampedAtFront ==
    Done =>
        /\ \A n \in Placed :
              AloneInEmptyContainer(n) =>
                  LET c == containers_map[output.placements[n].containerId]
                      item_req == items_to_place_input[1]
                      start == output.placements[n].position.startCoordinates
                  IN  /\ start.width = Zero
                      /\ start.height = Zero
                      /\ start.depth
                            = IF item_req.priority >= 75 THEN Zero
                              ELSE Max(Zero, Min(DSub(c.depth, depth_increment(c)),
                                                 DSub(c.depth, item_req.depth)))
        /\ FloorFitScenarios

(* A low-priority item alone in an empty container, placed off the front. *)
C19_Witness ==
    /\ Done
    /\ \E n \in Placed :
          /\ AloneInEmptyContainer(n)
          /\ items_to_place_input[1].priority < 75
          /\ DLt(Zero, output.placements[n].position.startCoordinates.depth)

(* The placements the call has added to the container, as indices into its
   list of the simulation: the seeded ones come first. *)
AddedTo(container_id) ==
    (Len(SimAt(current_db_placements, container_id)) + 1)
        .. Len(SimAt(simulation_placements, container_id))

(* The orientation the k-th placement of the container was made in: an
   orientation of an incoming item of its id that takes its start to its end. *)
OrientationOf(container_id, k) ==
    LET e == simulation_placements[container_id][k]
    IN  CHOOSE ori \in {orientations(items_to_place_input[i])[o] :
                            i \in {j \in 1..Len(items_to_place_input) :
                                      items_to_place_input[j].itemId = e.itemId},
                            o \in 1..6} :
            e.position = candidate_pos_at(e.position.startCoordinates.width,
                                          e.position.startCoordinates.depth,
                                          e.position.startCoordinates.height, ori)

(* The search that put the k-th placement of the container where it is, with
   the orientation of the placement as the item's first orientation. *)
SearchOf(container_id, k) ==
    LET e == simulation_placements[container_id][k]
        ori == OrientationOf(container_id, k)
    IN  SpotCall([itemId |-> e.itemId, width |-> ori[1], depth |-> ori[2],
                  height |-> ori[3], priority |-> e.priority,
                  preferredZone |-> NullOpt],
                 containers_map[container_id],
                 SubSeq(simulation_placements[container_id], 1, k - 1),
                 e.priority >= HIGH_PRIORITY_THRESHOLD)

(* The k-th placement of the container starts on the floor or at the end
   height of a placement that was in the container before it. *)
OnFloorOrTop(container_id, k) ==
    LET e == simulation_placements[container_id][k]
    IN  \/ e.position.startCoordinates.height = Zero
        \/ \E j \in 1..(k - 1) :
              simulation_placements[container_id][j].position.endCoordinates.height
                = e.position.startCoordinates.height

(* No candidate of the placement's orientation at a lower base height was
   valid when the placement was made. *)
LowestBaseHeight(container_id, k) ==
    LET a == SearchOf(container_id, k)
        e == simulation_placements[container_id][k]
    IN  \A u \in GridOf(a) :
            (u[1] = 1 /\ GridValid(a, u))
                => DLe(e.position.startCoordinates.height,
                       GridCandidate(a, u).startCoordinates.height)

(* The call of the stacking scenario: (4, 4, 4) whose floor B covers up to
   height 1, incoming A (2, 2, 1) of priority 80. *)
StackingScenario ==
    /\ items_to_place_input = << ItemData("A", 2 * Metre, 2 * Metre, Metre, 80, NullOpt) >>
    /\ containers_input = << Cube("C1", "Z1", 4) >>
    /\ SimAt(current_db_placements, "C1")
          = << PlacementInfo("B", "C1", Position(0, 0, 0, 4 * Metre, 4 * Metre, Metre), 50) >>

(* C20: every placement the call adds to a container starts on the floor or
   at the end height of a placement already in that container, and no
   candidate of its orientation at a lower base height was valid; in the
   stacking scenario A is placed at start (0, 0, 1). *)
C20_StacksOnFloorOrTops ==
    /\ \A c \in DOMAIN simulation_placements \cap DOMAIN containers_map :
          \A k \in AddedTo(c) :
              OnFloorOrTop(c, k) /\ LowestBaseHeight(c, k)
    /\ (Done /\ StackingScenario) =>
          \E n \in Placed :
              /\ output.placements[n].itemId = "A"
              /\ output.placements[n].containerId = "C1"
              /\ output.placements[n].position
                    = Position(0, 0, Metre, 2 * Metre, 2 * Metre, 2 * Metre)

(* The call has put an item on top of a placement, above the floor. *)
C20_Witness ==
    /\ Done
    /\ \E c \in DOMAIN simulation_placements \cap DOMAIN containers_map :
          \E k \in AddedTo(c) :
              /\ DLt(Zero, simulation_placements[c][k].position.startCoordinates.height)
              /\ OnFloorOrTop(c, k)

(* The seeded placements whose id no incoming item has. *)
UntouchedSeeds == {r \in SeedRefs : SeedAt(r).itemId \notin IncomingIds}

OutputPlacements == {output.placements[k] : k \in Placed}

(* The seeded placement is in the output as it was seeded. *)
KeptInOutput(r) ==
    PlacementResult(SeedAt(r).itemId, r[1], SeedAt(r).position) \in OutputPlacements

(* output.placements is final_placements_map without the entries whose id is
   in failedItemIds. *)
OnlyFailedLeftOut ==
    OutputPlacements
        = {final_placements_map[id] : id \in DOMAIN final_placements_map \ FailedIds}

(* C21 as stated: every seeded placement whose id is not among the incoming
   items is in output.placements with its container and position, and the
   entries left out of output.placements are those of the failed ids. *)
C21_SeedsKeptAsStated ==
    Done => /\ \A r \in UntouchedSeeds : KeptInOutput(r)
            /\ OnlyFailedLeftOut

(* C21 amended: the same, for seeded placements whose item ids are unique. *)
C21_UniqueSeedsKept ==
    (Done /\ SeedIdsUnique) =>
        /\ \A r \in UntouchedSeeds : KeptInOutput(r)
        /\ OnlyFailedLeftOut

(* A call with a seeded placement no incoming item names, in which one
   incoming item was placed and one failed. *)
C21_Witness ==
    /\ Done /\ SeedIdsUnique
    /\ UntouchedSeeds # {}
    /\ FailedIds # {}
    /\ PlacedIds \cap IncomingIds # {}

(* The list s is the beginning of the list t. *)
IsPrefix(s, t) == Len(s) <= Len(t) /\ SubSeq(t, 1, Len(s)) = s

(* The number of placements a simulation state holds. *)
PlacementCount(sim) ==
    Cardinality(UNION {{c} \X (1..Len(sim[c])) : c \in DOMAIN sim})

(* C22: the simulation state starts as the seeded placements and every step
   of the call after that keeps each container's placements as they are, in
   their order, adding at most one placement at the end of one list;
   output.rearrangements stays empty. *)
C22_SimulationAppendOnly ==
    [][/\ pc = "phase0" => simulation_placements' = current_db_placements
       /\ pc # "phase0" =>
             /\ \A c \in DOMAIN simulation_placements :
                   IsPrefix(simulation_placements[c], SimAt(simulation_placements', c))
             /\ PlacementCount(simulation_placements')
                   <= PlacementCount(simulation_placements) + 1
       /\ output.rearrangements = <<>>
       /\ output'.rearrangements = <<>>]_vars

(* The call has added a placement to a container that held a seeded one. *)
C22_Witness ==
    /\ Done
    /\ \E c \in DOMAIN simulation_placements :
          /\ SimAt(current_db_placements, c) # <<>>
          /\ AddedTo(c) # {}

----------------------------------------------------------------------------
(* Properties of the worker. *)

(* The worker is past the commit of its polling transaction with a job. *)
Processing(w) ==
    worker_pc[w] \in {"process", "parsed", "computed", "stored", "updated",
                      "error", "fail_updated"}

(* The worker holds the job: its polling transaction has selected the row and
   is still open, or the worker is processing the job.  The id a worker keeps
   in current_job_id while it sleeps after a failed poll is not a job it
   holds. *)
Holds(w, j) ==
    /\ current_job_id[w] = j
    /\ worker_pc[w] \in {"found", "marked"} \/ Processing(w)

(* C23: no job is processed by two workers: at most one worker has moved a
   job from PENDING to PROCESSING, two workers never hold the same job, a
   worker that processes a job is the one that claimed it, and the engine has
   run only for jobs that were claimed. *)
C23_JobClaimedOnce ==
    /\ \A j \in DOMAIN job_history : Cardinality(job_history[j].claimed_by) <= 1
    /\ \A w1, w2 \in DOMAIN worker_pc :
          \A j \in DOMAIN job_history :
              (Holds(w1, j) /\ Holds(w2, j)) => w1 = w2
    /\ \A w \in DOMAIN worker_pc :
          Processing(w) => job_history[current_job_id[w]].claimed_by = {w}
    /\ \A j \in DOMAIN job_history :
          HasValue(job_history[j].engine_success)
              => Cardinality(job_history[j].claimed_by) = 1

(* Two workers process at the same time, each the job it claimed. *)
C23_Witness ==
    /\ DOMAIN worker_pc = Workers
    /\ \A w \in Workers : worker_pc[w] = "parsed"
    /\ \A j \in Jobs : Cardinality(job_history[j].claimed_by) = 1

(* C24: every job that is PROCESSING is COMPLETED or FAILED in the end. *)
C24_ProcessingEventuallyFinal ==
    \A j \in Jobs :
        (placement_jobs[j].status = "PROCESSING")
            ~> (placement_jobs[j].status \in {"COMPLETED", "FAILED"})

(* The result rows of a job in the two result tables. *)
ResultRows(j) == <<job_results_placements[j], job_results_rearrangements[j]>>

NoRows == <<<<>>, <<>>>>

(* The job has been claimed and no worker holds it any more. *)
Settled(j) ==
    /\ placement_jobs[j].status # "PENDING"
    /\ \A w \in Workers : ~Holds(w, j)

(* C25, for the jobs no worker holds any more: result rows are there only
   with a final status, the job is COMPLETED exactly when the engine returned
   success = true, and a job whose processing threw is FAILED and has no
   result rows. *)
C25_CompletedIffEngineSuccess ==
    \A j \in DOMAIN placement_jobs :
        Settled(j) =>
            /\ ResultRows(j) # NoRows =>
                  placement_jobs[j].status \in {"COMPLETED", "FAILED"}
            /\ placement_jobs[j].status = "COMPLETED"
                  <=> job_history[j].engine_success = Some(TRUE)
            /\ job_history[j].threw =>
                  placement_jobs[j].status = "FAILED" /\ ResultRows(j) = NoRows

(* The worker has given up a job whose processing threw: the
   failure-marking transaction failed as well, and the job is left PROCESSING
   with no result rows and no worker holding it. *)
C25_Witness ==
    /\ DOMAIN placement_jobs = Jobs
    /\ \E j \in Jobs :
          /\ Settled(j)
          /\ job_history[j].threw
          /\ placement_jobs[j].status = "PROCESSING"
          /\ ResultRows(j) = NoRows

====
